---- MODULE Spec2Model ----
(***************************************************************************)
(* A model of the fajt ECMAScript front-end: the cover-grammar scan of the *)
(* parser (cover.rs), the parse of a Program with its directive prologue   *)
(* (lib.rs), the parser Context and the contextual keywords of the lexer   *)
(* (token.rs), the parse of functions and their bodies (function.rs), the  *)
(* early errors (early_error.rs) and the `for` statements (iteration.rs).  *)
(***************************************************************************)
EXTENDS Integers, Sequences, FiniteSets, TLC

\* ------------------------------------------------------------------ bounds
\* The number of tokens that follow `(` (or `async (`) in a cover-grammar input.
MaxBody == 4
\* The number of Parser values alive at once (one per nested with_context).
MaxDepth == 4
\* The number of statements of a Program.
MaxItems == 3
\* The nesting of parentheses around the argument of `delete`.
MaxParens == 3
\* The number of elements of an array literal, of properties of an object
\* literal, and of bound names of a parameter list.
MaxElements == 4
\* The number of bindings of a parameter list (the rest parameter apart).
MaxParams == 2
\* The number of scalars of an input string of the character reader.
MaxInput == 3
\* The number of characters of a source text of the lexer.
MaxChars == 5
\* The number of specifiers of the named imports of an import declaration.
MaxSpecifiers == 1
\* The number of tokens after the opening token of a binding pattern or of a
\* parameter list.
MaxList == 5

VARIABLES
    \* --- cover grammar (cover.rs)
    cover,          \* which cover production was entered: "parenthesized" | "async"
    entry,          \* index of the token that was current when it was entered
    tokens,         \* the token stream the lexer yields for the input
    pos,            \* PeekReader: index of the current token (Len + 1: end of stream)
    pc,             \* position in parse_cover_* / token_after_parenthesis
    start,          \* token_after_parenthesis: `start`
    depth,          \* skip_until_closing_parenthesis: `depth`
    after_token,    \* the Option<Token> token_after_parenthesis returns
    production,     \* the production the cover function chose to parse
    begin_token,    \* the token that was current when the chosen production began
    result,         \* what the cover function returns: "none" (running), "Ok", "Err"
    raised,         \* the errors token reads have raised so far, in order
    \* --- Context and Parser::with_context (lib.rs)
    parsers,        \* the context of every live Parser value, the innermost last
    calls,          \* per Parser value, the modifier call its context came from
    returned,       \* what the last sub-parse that returned gave: "none", "Ok", "Err"
    \* --- parse::<Program> (lib.rs)
    source_type,    \* SourceType: "Script" | "Module" | "Unknown"
    source,         \* the input: is the text empty, and its statements in order
    ppc,            \* position in parse / Program::parse
    idx,            \* index of the statement the reader stands on
    entry_context,  \* the parser's context when Program::parse is entered
    directives,     \* `directives`
    body,           \* the body statements parsed, each with the context it was parsed under
    outcome,        \* how parse ended: "none" (running), "Ok", "Err", "Panic"
    \* --- Keyword::into_identifier_string (token.rs)
    keyword,        \* the Keyword it is called on
    keyword_context,\* the KeywordContext bits it is given
    identifier,     \* its Result: "none" (not called yet), Ok(string), Err(ForbiddenIdentifier)
    \* --- functions (function.rs)
    function,       \* the function parsed: its form, `asynchronous`, `generator`
    fn_enclosing,   \* the context of the Parser the function is met by
    fpc,            \* position in parse_function_* / parse_function_body
    fn_context,     \* the context of the Parser that parses the parameters and the body
    fn_parameters,  \* the contexts parse_formal_parameters ran under (none or one)
    fn_items,       \* the statements between `{` and `}`, in order
    fn_idx,         \* index of the statement the reader stands on
    fn_directives,  \* parse_function_body: `directives`
    fn_statements,  \* parse_function_body: `statements`
    fn_parsed,      \* per statement parsed: its index, its context, the list it went to
    fn_result,      \* "none" (running), "Ok", "Err"
    \* --- early errors (early_error.rs)
    validation,     \* which validate_* function is called
    ee_context,     \* the context of the Parser it is called on
    argument,       \* its argument: an expression or a parameter list
    operator,       \* validate_left_side_expr: `operator`
    ee_result,      \* its Result: "none" (not called yet), Ok, Err(kind, message, span)
    \* --- for statements (iteration.rs)
    for_head,       \* the `for` statement of the input: await?, its shape, its init
    for_context,    \* the context of the Parser parse_for_stmt is called on
    for_pc,         \* position in parse_for_stmt and the functions it calls
    asynchronous,   \* parse_for_stmt: `asynchronous`
    for_parsed,     \* the sub-parses of the header so far: the part and its context
    for_result,     \* "none" (running), Ok(statement), Err(kind)
    for_tokens,     \* the tokens of the statement and the token after it
    for_reader,     \* the reader: index of its current token
    start_token,    \* parse_for_stmt: `start_token`
    first_semicolon, \* try_parse_for: what maybe_consume(`;`) returned
    rewinds,        \* number of rewind_to calls so far
    for_spans,      \* the span of each sub-parse of for_parsed
    for_span,       \* the span of the statement node
    \* --- character reader (reader.rs)
    input,          \* the scalars of the input string
    reader,         \* the Reader: iter, current, next, position, end_of_file
    reader_returned, \* the last call on the Reader and what it returned
    \* --- lexer (lexer/src/lib.rs)
    data,           \* Lexer::new: `data`, the characters of the source text
    lexer,          \* the Lexer: its Reader, by current character and column
    lexed,          \* Lexer::read: `tokens`
    lex_status,     \* what the last Lexer::new or Lexer::next returned
    \* --- import declarations (module.rs)
    import_pc,      \* position in parse_import_declaration and the functions it calls
    import_current, \* the reader: its current token
    import_consumed, \* the reader: the tokens consumed so far
    import_decl,    \* default_binding, namespace_binding, named_imports, from so far
    import_result,  \* "none" (running), Ok(DeclImport), Err(kind), Panic
    \* --- binding patterns and formal parameters (binding.rs, function.rs)
    list_kind,      \* which list is parsed: "array" | "object" | "parameters"
    list_tokens,    \* the tokens of the input, the opening token first
    list_pos,       \* the reader: index of its current token
    list_pc,        \* position in the parse function
    list_elements,  \* `elements` / `props` / `parameters`: "Some" or "None" (empty slot)
    list_rest,      \* `rest`: None, or Some with the index of its `...`
    list_entries,   \* the pushes and the assignments of `rest`, in order
    list_result     \* "none" (running), Ok, Err(kind, message)

coverVars == <<cover, entry, tokens, pos, pc, start, depth, after_token, production,
               begin_token, result, raised>>

ctxVars == <<parsers, calls, returned>>

progVars == <<source_type, source, ppc, idx, entry_context, directives, body, outcome>>

kwVars == <<keyword, keyword_context, identifier>>

fnVars == <<function, fn_enclosing, fpc, fn_context, fn_parameters, fn_items, fn_idx,
            fn_directives, fn_statements, fn_parsed, fn_result>>

eeVars == <<validation, ee_context, argument, operator, ee_result>>

forVars == <<for_head, for_context, for_pc, asynchronous, for_parsed, for_result,
             for_tokens, for_reader, start_token, first_semicolon, rewinds, for_spans,
             for_span>>

readerVars == <<input, reader, reader_returned>>

lexVars == <<data, lexer, lexed, lex_status>>

importVars == <<import_pc, import_current, import_consumed, import_decl, import_result>>

listVars == <<list_kind, list_tokens, list_pos, list_pc, list_elements, list_rest,
              list_entries, list_result>>

vars == <<coverVars, ctxVars, progVars, kwVars, fnVars, eeVars, forVars, readerVars,
          lexVars, importVars, listVars>>

\* What each part of the model leaves alone.
notCoverVars == <<ctxVars, progVars, kwVars, fnVars, eeVars, forVars, readerVars, lexVars, importVars, listVars>>
notCtxVars == <<coverVars, progVars, kwVars, fnVars, eeVars, forVars, readerVars, lexVars, importVars, listVars>>
notProgVars == <<coverVars, kwVars, fnVars, eeVars, forVars, readerVars, lexVars, importVars, listVars>>
notKwVars == <<coverVars, ctxVars, progVars, fnVars, eeVars, forVars, readerVars, lexVars, importVars, listVars>>
notFnVars == <<coverVars, ctxVars, progVars, kwVars, eeVars, forVars, readerVars, lexVars, importVars, listVars>>
notEeVars == <<coverVars, ctxVars, progVars, kwVars, fnVars, forVars, readerVars, lexVars, importVars, listVars>>
notForVars == <<coverVars, ctxVars, progVars, kwVars, fnVars, eeVars, readerVars, lexVars, importVars, listVars>>
notReaderVars == <<coverVars, ctxVars, progVars, kwVars, fnVars, eeVars, forVars, lexVars, importVars, listVars>>
notLexVars == <<coverVars, ctxVars, progVars, kwVars, fnVars, eeVars, forVars, readerVars, importVars, listVars>>
notImportVars == <<coverVars, ctxVars, progVars, kwVars, fnVars, eeVars, forVars, readerVars, lexVars, listVars>>
notListVars == <<coverVars, ctxVars, progVars, kwVars, fnVars, eeVars, forVars, readerVars, lexVars, importVars>>

\* ------------------------------------------------------------------ tokens

Span(a, b) == [start |-> a, end |-> b]

\* Option<Token>::None
NoToken == [value |-> "None", first_on_line |-> FALSE, span |-> Span(-1, -1)]

\* The token values the scan tells apart, with the first_on_line flag.
Alphabet ==
    {[value |-> "(", first_on_line |-> FALSE],
     [value |-> ")", first_on_line |-> FALSE],
     [value |-> "=>", first_on_line |-> FALSE],
     [value |-> "=>", first_on_line |-> TRUE],
     [value |-> "Identifier", first_on_line |-> FALSE],
     [value |-> "TemplateHead", first_on_line |-> FALSE],
     [value |-> "TemplateTail", first_on_line |-> FALSE]}

\* The i-th token of the stream: every token is one byte wide and one blank
\* separates two tokens, so its span is [2(i-1), 2(i-1)+1).
Token(i, a) ==
    [value |-> a.value, first_on_line |-> a.first_on_line,
     span |-> Span(2 * (i - 1), 2 * (i - 1) + 1)]

Lex(seq) == [i \in 1..Len(seq) |-> Token(i, seq[i])]

Count(toks, v, n) == Cardinality({k \in 1..n : toks[k].value = v})

\* The lexer yields a TemplateTail only when it re-lexes inside an open template.
TemplatesOpenBefore(toks, k) ==
    Count(toks, "TemplateHead", k - 1) - Count(toks, "TemplateTail", k - 1)

LexerCanYield(toks) ==
    \A k \in 1..Len(toks) :
        toks[k].value = "TemplateTail" => TemplatesOpenBefore(toks, k) > 0

Bodies == UNION {[1..n -> Alphabet] : n \in 0..MaxBody}

\* The tokens a cover production is entered on: `(`, or `async (`.
Prefix(c) ==
    IF c = "parenthesized"
    THEN <<[value |-> "(", first_on_line |-> FALSE]>>
    ELSE <<[value |-> "async", first_on_line |-> FALSE],
           [value |-> "(", first_on_line |-> FALSE]>>

\* The tokens already consumed when the cover production is entered.
Leads == {<<>>, <<[value |-> "Identifier", first_on_line |-> TRUE]>>}

\* ------------------------------------------------------------------ reader

EndOfStream == "EndOfStream"

reader_is_end(toks, p) == p > Len(toks)

reader_current(toks, p) == IF reader_is_end(toks, p) THEN NoToken ELSE toks[p]

\* rewind_to(token): back to the start of `token`.
rewind_to(toks, token) ==
    CHOOSE i \in 1..Len(toks) : toks[i].span.start = token.span.start

\* The template sub-parser, entered after a TemplateHead was consumed: reads on
\* to the TemplateTail that closes it (p: next index, d: open templates).
\* 0: the stream ended first.
RECURSIVE parse_template_literal_parts(_, _, _)
parse_template_literal_parts(toks, p, d) ==
    IF p > Len(toks) THEN 0
    ELSE IF toks[p].value = "TemplateTail"
         THEN IF d = 1 THEN p + 1 ELSE parse_template_literal_parts(toks, p + 1, d - 1)
    ELSE IF toks[p].value = "TemplateHead"
         THEN parse_template_literal_parts(toks, p + 1, d + 1)
    ELSE parse_template_literal_parts(toks, p + 1, d)

\* ------------------------------------------------------------------ cover.rs

Running == [status |-> "none", error |-> "none"]
Ok == [status |-> "Ok", error |-> "none"]
Err(e) == [status |-> "Err", error |-> e]

\* Faulty variant of is_arrow_parameters: the `=>` is accepted on any line.
is_arrow_parameters_any_line(t) == t.value = "=>"

\* parse_cover_parenthesized_and_arrow_parameters: the test of the `if`.
is_arrow_parameters(t) == t.value = "=>" /\ ~t.first_on_line

\* parse_cover_call_or_async_arrow_head: the test of the `if`.
is_async_arrow_head(t) == t.value = "=>"

\* Faulty variant of skip_depth: a `(` does not nest, it resets depth to 1.
skip_depth_no_nesting(d, value) ==
    IF value = "(" THEN 1
    ELSE IF value = ")" THEN d - 1
    ELSE d

\* skip_until_closing_parenthesis: what a consumed token does to `depth`.
skip_depth(d, value) ==
    IF value = "(" THEN d + 1
    ELSE IF value = ")" THEN d - 1
    ELSE d

\* skip_until_closing_parenthesis: the loop breaks on the `)` that brings
\* `depth` back to 0.
skip_breaks(d, value) == value = ")" /\ skip_depth(d, value) = 0

\* Faulty variant of skip_returns_error: every Err from consume is skipped.
skip_ignores_error(e) == FALSE

\* skip_until_closing_parenthesis: an Err from consume is returned unless it is
\* a lexer error of kind UnrecognizedCodePoint.
skip_returns_error(e) == e # "UnrecognizedCodePoint"

\* Faulty variant of token_after_parenthesis_rewind: the reader stays where
\* the scan left it.
token_after_parenthesis_no_rewind(toks, p, st) == p

\* token_after_parenthesis: `self.reader.rewind_to(&start)?`.
token_after_parenthesis_rewind(toks, p, st) == rewind_to(toks, st)

CoverStart ==
    /\ cover \in {"parenthesized", "async"}
    /\ \E lead \in Leads, rest \in Bodies :
          /\ tokens = Lex(lead \o Prefix(cover) \o rest)
          /\ entry = Len(lead) + 1
    /\ LexerCanYield(tokens)
    /\ pos = entry
    /\ pc = "enter"
    /\ start = NoToken
    /\ depth = 0
    /\ after_token = NoToken
    /\ production = "none"
    /\ begin_token = NoToken
    /\ result = Running
    /\ raised = <<>>

\* No cover production is being parsed.
CoverIdle ==
    /\ cover = "none"
    /\ entry = 0
    /\ tokens = <<>>
    /\ pos = 0
    /\ pc = "idle"
    /\ start = NoToken
    /\ depth = 0
    /\ after_token = NoToken
    /\ production = "none"
    /\ begin_token = NoToken
    /\ result = Running
    /\ raised = <<>>

\* token_after_parenthesis: `let start = self.current()?.clone();`
TokenAfterStart ==
    /\ pc = "enter"
    /\ IF reader_is_end(tokens, pos)
       THEN /\ raised' = Append(raised, EndOfStream)
            /\ result' = Err(EndOfStream)
            /\ pc' = "done"
            /\ UNCHANGED start
       ELSE /\ start' = reader_current(tokens, pos)
            /\ pc' = "skip"
            /\ UNCHANGED <<raised, result>>
    /\ depth' = 0
    /\ UNCHANGED <<cover, entry, tokens, pos, after_token, production, begin_token>>
    /\ UNCHANGED notCoverVars

\* skip_until_closing_parenthesis: one turn of the loop.
SkipStep ==
    /\ pc = "skip"
    /\ IF reader_is_end(tokens, pos)
       THEN \* consume fails: end of stream
            /\ raised' = Append(raised, EndOfStream)
            /\ IF skip_returns_error(EndOfStream)
               THEN result' = Err(EndOfStream) /\ pc' = "done"
               ELSE UNCHANGED <<result, pc>>
            /\ UNCHANGED <<pos, depth>>
       ELSE LET tok == tokens[pos] IN
            IF tok.value = "TemplateHead"
            THEN LET e == parse_template_literal_parts(tokens, pos + 1, 1) IN
                 IF e = 0
                 THEN /\ raised' = Append(raised, EndOfStream)
                      /\ result' = Err(EndOfStream)
                      /\ pc' = "done"
                      /\ pos' = Len(tokens) + 1
                      /\ UNCHANGED depth
                 ELSE /\ pos' = e
                      /\ UNCHANGED <<raised, result, pc, depth>>
            ELSE /\ pos' = pos + 1
                 /\ depth' = skip_depth(depth, tok.value)
                 /\ pc' = IF skip_breaks(depth, tok.value) THEN "after" ELSE "skip"
                 /\ UNCHANGED <<raised, result>>
    /\ UNCHANGED <<cover, entry, tokens, start, after_token, production, begin_token>>
    /\ UNCHANGED notCoverVars

\* token_after_parenthesis: `let token = self.consume().ok();`
TokenAfterConsume ==
    /\ pc = "after"
    /\ IF reader_is_end(tokens, pos)
       THEN /\ raised' = Append(raised, EndOfStream)
            /\ after_token' = NoToken
            /\ UNCHANGED pos
       ELSE /\ after_token' = tokens[pos]
            /\ pos' = pos + 1
            /\ UNCHANGED raised
    /\ pc' = "rewind"
    /\ UNCHANGED <<cover, entry, tokens, start, depth, production, begin_token, result>>
    /\ UNCHANGED notCoverVars

\* token_after_parenthesis: `self.reader.rewind_to(&start)?; Ok(token)`
TokenAfterRewind ==
    /\ pc = "rewind"
    /\ pos' = token_after_parenthesis_rewind(tokens, pos, start)
    /\ pc' = "decide"
    /\ UNCHANGED <<cover, entry, tokens, start, depth, after_token, production,
                   begin_token, result, raised>>
    /\ UNCHANGED notCoverVars

\* parse_cover_parenthesized_and_arrow_parameters and
\* parse_cover_call_or_async_arrow_head: the choice of the production.
CoverDecide ==
    /\ pc = "decide"
    /\ production' =
          IF cover = "parenthesized"
          THEN IF is_arrow_parameters(after_token)
               THEN "ArrowFunction" ELSE "ParenthesizedExpression"
          ELSE IF is_async_arrow_head(after_token)
               THEN "AsyncArrowFunction" ELSE "CallExpression"
    /\ pc' = "parse"
    /\ UNCHANGED <<cover, entry, tokens, pos, start, depth, after_token,
                   begin_token, result, raised>>
    /\ UNCHANGED notCoverVars

\* The chosen production is parsed: it starts by consuming the current token
\* (parse_covered_call_expression: parse_identifier consumes `async`).
CoverParse ==
    /\ pc = "parse"
    /\ begin_token' = reader_current(tokens, pos)
    /\ pos' = pos + 1
    /\ result' = Ok
    /\ pc' = "done"
    /\ UNCHANGED <<cover, entry, tokens, start, depth, after_token, production, raised>>
    /\ UNCHANGED notCoverVars

CoverNext ==
    \/ TokenAfterStart
    \/ SkipStep
    \/ TokenAfterConsume
    \/ TokenAfterRewind
    \/ CoverDecide
    \/ CoverParse


\* ------------------------------------------------------------------ Context (lib.rs)

\* #[derive(Default)] struct Context
Context_default ==
    [is_await |-> FALSE, is_yield |-> FALSE, is_in |-> FALSE,
     is_strict |-> FALSE, is_default |-> FALSE]

ContextFields == {"is_await", "is_yield", "is_in", "is_strict", "is_default"}

\* macro modifier!: Context { $field_name, ..(*self) }
modifier(field_name, self, value) == [self EXCEPT ![field_name] = value]

with_await(self, is_await) == modifier("is_await", self, is_await)
with_yield(self, is_yield) == modifier("is_yield", self, is_yield)
with_in(self, is_in) == modifier("is_in", self, is_in)
with_strict(self, is_strict) == modifier("is_strict", self, is_strict)
with_default(self, is_default) == modifier("is_default", self, is_default)

Modifiers == {"with_await", "with_yield", "with_in", "with_strict", "with_default"}

apply_modifier(m, self, value) ==
    CASE m = "with_await" -> with_await(self, value)
      [] m = "with_yield" -> with_yield(self, value)
      [] m = "with_in" -> with_in(self, value)
      [] m = "with_strict" -> with_strict(self, value)
      [] m = "with_default" -> with_default(self, value)

\* Faulty variant of with_context: the context is also stored into the Parser
\* it is called on.
with_context_in_place(ps, context) ==
    Append([ps EXCEPT ![Len(ps)] = context], context)

\* Parser::with_context: a new Parser value holding `context`, on the same
\* reader; the Parser it is called on keeps its own context.
with_context(ps, context) == Append(ps, context)

\* The Parser value a sub-parse ran on is dropped when the sub-parse returns.
drop_parser(ps) == SubSeq(ps, 1, Len(ps) - 1)

Top(ps) == ps[Len(ps)]

CtxIdle == parsers = <<>> /\ calls = <<>> /\ returned = "none"

NewCall == [modifier |-> "new", arg |-> FALSE]

\* Parser::new: `context: Context::default()`
CtxStart ==
    /\ parsers = <<Context_default>>
    /\ calls = <<NewCall>>
    /\ returned = "none"

\* `self.with_context(self.context.with_x(v)).parse_...()`: the sub-parse is entered.
SubParse(m, v) ==
    /\ Len(parsers) < MaxDepth
    /\ parsers' = with_context(parsers, apply_modifier(m, Top(parsers), v))
    /\ calls' = Append(calls, [modifier |-> m, arg |-> v])
    /\ UNCHANGED returned
    /\ UNCHANGED notCtxVars

\* The sub-parse returns Ok or Err to the parser that called with_context.
SubParseReturn(r) ==
    /\ Len(parsers) > 1
    /\ parsers' = drop_parser(parsers)
    /\ calls' = SubSeq(calls, 1, Len(calls) - 1)
    /\ returned' = r
    /\ UNCHANGED notCtxVars

CtxNext ==
    \/ \E m \in Modifiers, v \in BOOLEAN : SubParse(m, v)
    \/ \E r \in {"Ok", "Err"} : SubParseReturn(r)

\* ------------------------------------------------------------------ Program (lib.rs)

\* A statement of the input, by its first token and by what parse_stmt makes of it.
Item(first, node, value) == [first |-> first, node |-> node, value |-> value]

Items ==
    {Item("String", "StringLiteral", "use strict"),   \* "use strict";
     Item("String", "StringLiteral", "use asm"),      \* "use asm";
     Item("String", "Binary", ""),                    \* "a" + b;
     Item("String", "Error", ""),                     \* "a" + ;
     Item("Other", "Stmt", ""),                       \* x;
     Item("Other", "Error", ""),                      \* x + ;
     Item("export", "{", ""),                         \* export { a };
     Item("export", "function", ""),                  \* export function f() {}
     Item("export", "default", "")}                   \* export default 1;

Sources ==
    {[text_empty |-> TRUE, items |-> <<>>]}
        \cup {[text_empty |-> FALSE, items |-> i] :
                i \in UNION {[1..n -> Items] : n \in 0..MaxItems}}

\* Reader::new (reader.rs) under Lexer::new: `iter.next().ok_or_else(EndOfFile)?`
Lexer_new(src) == IF src.text_empty THEN "Err" ELSE "Ok"

\* parse_default_export: consume `default`, then todo!() in both arms.
parse_default_export == "Panic"

\* parse_export_declaration: the match on the token after `export`.
parse_export_declaration(next) ==
    CASE next \in {"{", "*", "var", "let", "const"} -> "Ok"
      [] next \in {"class", "function", "async function"} -> "Panic"
      [] next = "default" -> parse_default_export
      [] OTHER -> "Err"

\* parse_stmt: Ok with a node, Err, or a panic below it.
parse_stmt(item, st) ==
    IF item.first = "export"
    THEN IF st = "Script" THEN "Err" ELSE parse_export_declaration(item.node)
    ELSE IF item.node = "Error" THEN "Err" ELSE "Ok"

\* parse_directive_prologue: stmt.unwrap_expr_stmt().expr.unwrap_literal()
\* .literal.unwrap_string() panics unless the statement is a string literal.
unwrap_directive(item) == IF item.node = "StringLiteral" THEN "Ok" ELSE "Panic"

\* Faulty variant of strict_mode: only the first directive is looked at.
strict_mode_first_only(ds) == Len(ds) > 0 /\ ds[1] = "use strict"

\* Program::parse: `directives.iter().any(|s| s.value == "use strict")`
strict_mode(ds) == \E k \in 1..Len(ds) : ds[k] = "use strict"

\* Program::parse: the Parser values alive while the body is parsed.
body_parsers(ps, ds) ==
    IF strict_mode(ds)
    THEN with_context(ps, with_strict(Top(ps), TRUE))
    ELSE ps

current_matches_string_literal ==
    idx <= Len(source.items) /\ source.items[idx].first = "String"

ProgIdle ==
    /\ source_type = "none"
    /\ source = [text_empty |-> TRUE, items |-> <<>>]
    /\ ppc = "idle"
    /\ idx = 0
    /\ entry_context = Context_default
    /\ directives = <<>>
    /\ body = <<>>
    /\ outcome = "none"

ProgStart ==
    /\ source_type \in {"Script", "Module", "Unknown"}
    /\ source \in Sources
    /\ ppc = "parse"
    /\ idx = 1
    /\ entry_context = Context_default
    /\ directives = <<>>
    /\ body = <<>>
    /\ outcome = "none"
    /\ parsers = <<>>
    /\ calls = <<>>
    /\ returned = "none"

\* parse: Lexer::new(input).unwrap(), then Parser::parse: Parser::new.
Parse ==
    /\ ppc = "parse"
    /\ IF Lexer_new(source) = "Err"
       THEN /\ outcome' = "Panic"
            /\ ppc' = "done"
            /\ UNCHANGED <<parsers, calls, entry_context>>
       ELSE /\ parsers' = <<Context_default>>
            /\ calls' = <<NewCall>>
            /\ entry_context' = Context_default
            /\ ppc' = "prologue"
            /\ UNCHANGED outcome
    /\ UNCHANGED <<source_type, source, idx, directives, body, returned>>
    /\ UNCHANGED notProgVars

\* parse_directive_prologue: one turn of the loop.
DirectivePrologueStep ==
    /\ ppc = "prologue"
    /\ IF current_matches_string_literal
       THEN LET item == source.items[idx]
                r == parse_stmt(item, source_type)
                u == IF r = "Ok" THEN unwrap_directive(item) ELSE r
            IN IF u = "Ok"
               THEN /\ directives' = Append(directives, item.value)
                    /\ idx' = idx + 1
                    /\ UNCHANGED <<ppc, outcome>>
               ELSE /\ outcome' = u
                    /\ ppc' = "done"
                    /\ UNCHANGED <<directives, idx>>
       ELSE /\ ppc' = "strict"
            /\ UNCHANGED <<directives, idx, outcome>>
    /\ UNCHANGED <<source_type, source, entry_context, body, parsers, calls, returned>>
    /\ UNCHANGED notProgVars

\* Program::parse: strict_mode decides which Parser value parses the body.
ProgramBodyParser ==
    /\ ppc = "strict"
    /\ parsers' = body_parsers(parsers, directives)
    /\ calls' = IF Len(parsers') > Len(parsers)
                THEN Append(calls, [modifier |-> "with_strict", arg |-> TRUE])
                ELSE calls
    /\ ppc' = "body"
    /\ UNCHANGED <<source_type, source, idx, entry_context, directives, body,
                   outcome, returned>>
    /\ UNCHANGED notProgVars

\* parse_all_stmts: one statement, or the end of the input; then Program::parse
\* builds the Program.
ParseAllStmtsStep ==
    /\ ppc = "body"
    /\ IF idx > Len(source.items)
       THEN /\ outcome' = "Ok"
            /\ ppc' = "done"
            /\ returned' = IF Len(parsers) > 1 THEN "Ok" ELSE returned
            /\ parsers' = <<parsers[1]>>
            /\ calls' = <<calls[1]>>
            /\ UNCHANGED <<idx, body>>
       ELSE LET item == source.items[idx]
                r == parse_stmt(item, source_type)
            IN IF r = "Ok"
               THEN /\ body' = Append(body, [item |-> item, context |-> Top(parsers)])
                    /\ idx' = idx + 1
                    /\ UNCHANGED <<ppc, outcome, parsers, calls, returned>>
               ELSE /\ outcome' = r
                    /\ ppc' = "done"
                    /\ returned' = IF Len(parsers) > 1 /\ r = "Err" THEN "Err" ELSE returned
                    /\ parsers' = <<parsers[1]>>
                    /\ calls' = <<calls[1]>>
                    /\ UNCHANGED <<idx, body>>
    /\ UNCHANGED <<source_type, source, entry_context, directives>>
    /\ UNCHANGED notProgVars

ProgNext ==
    \/ Parse
    \/ DirectivePrologueStep
    \/ ProgramBodyParser
    \/ ParseAllStmtsStep

\* ------------------------------------------------------------------ Keyword (token.rs)

\* bitflags! KeywordContext: u32
AWAIT == 1
YIELD == 2
STRICT == 128

RECURSIVE BitAnd(_, _)
BitAnd(a, b) ==
    IF a = 0 \/ b = 0 THEN 0
    ELSE (a % 2) * (b % 2) + 2 * BitAnd(a \div 2, b \div 2)

RECURSIVE BitOr(_, _)
BitOr(a, b) ==
    IF a = 0 THEN b
    ELSE IF b = 0 THEN a
    ELSE (IF a % 2 = 1 \/ b % 2 = 1 THEN 1 ELSE 0) + 2 * BitOr(a \div 2, b \div 2)

\* KeywordContext::contains, KeywordContext::intersects
contains(self, other) == BitAnd(self, other) = other
intersects(self, other) == BitAnd(self, other) # 0

KeywordContexts ==
    {BitOr(a, BitOr(y, s)) : a \in {0, AWAIT}, y \in {0, YIELD}, s \in {0, STRICT}}

\* enum Keyword
Keywords ==
    {"Await", "As", "Async", "Break", "Case", "Catch",
     "Class", "Const", "Continue", "Debugger", "Default", "Delete",
     "Do", "Else", "Enum", "Export", "Extends", "False",
     "Finally", "For", "From", "Function", "Get", "If",
     "Implements", "Import", "In", "Instanceof", "Interface", "Let",
     "New", "Null", "Of", "Package", "Private", "Protected",
     "Public", "Return", "Set", "Static", "Super", "Switch",
     "Target", "This", "Throw", "True", "Try", "Typeof",
     "Var", "Void", "While", "With", "Yield"}

\* The string of a variant: `v.ident.to_string().to_lowercase()`
variant_string ==
    [Await |-> "await", As |-> "as", Async |-> "async", Break |-> "break",
     Case |-> "case", Catch |-> "catch", Class |-> "class", Const |-> "const",
     Continue |-> "continue", Debugger |-> "debugger", Default |-> "default", Delete |-> "delete",
     Do |-> "do", Else |-> "else", Enum |-> "enum", Export |-> "export",
     Extends |-> "extends", False |-> "false", Finally |-> "finally", For |-> "for",
     From |-> "from", Function |-> "function", Get |-> "get", If |-> "if",
     Implements |-> "implements", Import |-> "import", In |-> "in", Instanceof |-> "instanceof",
     Interface |-> "interface", Let |-> "let", New |-> "new", Null |-> "null",
     Of |-> "of", Package |-> "package", Private |-> "private", Protected |-> "protected",
     Public |-> "public", Return |-> "return", Set |-> "set", Static |-> "static",
     Super |-> "super", Switch |-> "switch", Target |-> "target", This |-> "this",
     Throw |-> "throw", True |-> "true", Try |-> "try", Typeof |-> "typeof",
     Var |-> "var", Void |-> "void", While |-> "while", With |-> "with",
     Yield |-> "yield"]

\* Keyword::to_string
to_string(self) == variant_string[self]

\* Faulty variant of is_allows_as_identifier: `yield` is tested with contains,
\* so it is refused only when both YIELD and STRICT are set.
is_allows_as_identifier_yield_contains(self, ctx) ==
    CASE self \in {"As", "Async", "From", "Get", "Of", "Set", "Target"} -> TRUE
      [] self = "Await" /\ ~contains(ctx, AWAIT) -> TRUE
      [] self = "Yield" /\ ~contains(ctx, BitOr(YIELD, STRICT)) -> TRUE
      [] /\ self \in {"Implements", "Interface", "Let", "Package", "Private",
                      "Protected", "Public", "Static"}
         /\ ~contains(ctx, STRICT) -> TRUE
      [] OTHER -> FALSE

\* Keyword::is_allows_as_identifier
is_allows_as_identifier(self, ctx) ==
    CASE self \in {"As", "Async", "From", "Get", "Of", "Set", "Target"} -> TRUE
      [] self = "Await" /\ ~contains(ctx, AWAIT) -> TRUE
      [] self = "Yield" /\ ~intersects(ctx, BitOr(YIELD, STRICT)) -> TRUE
      [] /\ self \in {"Implements", "Interface", "Let", "Package", "Private",
                      "Protected", "Public", "Static"}
         /\ ~contains(ctx, STRICT) -> TRUE
      [] OTHER -> FALSE

\* Keyword::into_identifier_string
into_identifier_string(self, ctx) ==
    IF is_allows_as_identifier(self, ctx)
    THEN [status |-> "Ok", value |-> to_string(self)]
    ELSE [status |-> "Err", value |-> "ForbiddenIdentifier(" \o self \o ")"]

NotCalled == [status |-> "none", value |-> ""]

KwIdle == keyword = "none" /\ keyword_context = 0 /\ identifier = NotCalled

KwStart ==
    /\ keyword \in Keywords
    /\ keyword_context \in KeywordContexts
    /\ identifier = NotCalled

IntoIdentifierString ==
    /\ identifier = NotCalled
    /\ identifier' = into_identifier_string(keyword, keyword_context)
    /\ UNCHANGED <<keyword, keyword_context>>
    /\ UNCHANGED notKwVars

KwNext == IntoIdentifierString

\* ------------------------------------------------------------------ functions (function.rs)

\* ContextModify::new(): no field is to be changed.
ContextModify_new == [f \in {} |-> FALSE]

ContextModify_set(self, field, value) ==
    [f \in DOMAIN self \cup {field} |-> IF f = field THEN value ELSE self[f]]

set_await(self, value) == ContextModify_set(self, "is_await", value)
set_yield(self, value) == ContextModify_set(self, "is_yield", value)

\* Parser::with_context(modify): the context of the new Parser value, the fields
\* `modify` names changed and the others copied.
with_context_modify(context, modify) ==
    [f \in ContextFields |-> IF f \in DOMAIN modify THEN modify[f] ELSE context[f]]

\* The context of the Parser value that parses the parameters and the body.
\* parse_function_declaration: set_yield(false).set_await(false);
\* parse_async_function_declaration: set_yield(false).set_await(true);
\* parse_function_expr and parse_async_function_expr call no with_context.
function_context(fn, context) ==
    IF fn.form = "declaration"
    THEN IF fn.asynchronous
         THEN with_context_modify(context, set_await(set_yield(ContextModify_new, FALSE), TRUE))
         ELSE with_context_modify(context, set_await(set_yield(ContextModify_new, FALSE), FALSE))
    ELSE context

\* The statements a function body is made of.
FnItems == {i \in Items : i.first # "export"}

FnBodies == UNION {[1..n -> FnItems] : n \in 0..MaxItems}

\* The function forms: declaration or expression, async or not, generator or
\* not; `parameters` is what parse_formal_parameters returns for the input.
Functions ==
    [form : {"declaration", "expression"}, asynchronous : BOOLEAN,
     generator : BOOLEAN, parameters : {"Ok", "Err"}]

NoFunction ==
    [form |-> "none", asynchronous |-> FALSE, generator |-> FALSE, parameters |-> "Ok"]

\* The contexts a function is met in: in, default are those of a statement.
FnContexts ==
    {c \in [ContextFields -> BOOLEAN] : c.is_in /\ ~c.is_default}

\* match_string_literal: Some(string) for a Stmt::Expr of a string literal.
match_string_literal(stmt) == stmt.node = "StringLiteral"

\* Faulty variant of is_directive: a string literal is a directive wherever it
\* stands in the body.
is_directive_anywhere(statements, stmt) == match_string_literal(stmt)

\* parse_function_body: a parsed statement goes to `directives` when
\* `statements` is still empty and it is a string literal.
is_directive(statements, stmt) == statements = <<>> /\ match_string_literal(stmt)

FnIdle ==
    /\ function = NoFunction
    /\ fn_enclosing = Context_default
    /\ fpc = "idle"
    /\ fn_context = Context_default
    /\ fn_parameters = <<>>
    /\ fn_items = <<>>
    /\ fn_idx = 0
    /\ fn_directives = <<>>
    /\ fn_statements = <<>>
    /\ fn_parsed = <<>>
    /\ fn_result = "none"

FnStart ==
    /\ function \in Functions
    /\ fn_enclosing \in FnContexts
    /\ fpc = "head"
    /\ fn_context = Context_default
    /\ fn_parameters = <<>>
    /\ fn_items \in FnBodies
    /\ fn_idx = 1
    /\ fn_directives = <<>>
    /\ fn_statements = <<>>
    /\ fn_parsed = <<>>
    /\ fn_result = "none"

\* parse_function_declaration, parse_async_function_declaration,
\* parse_function_expr, parse_async_function_expr: up to the parameters.
ParseFunctionHead ==
    /\ fpc = "head"
    /\ fn_context' = function_context(function, fn_enclosing)
    /\ fpc' = "parameters"
    /\ UNCHANGED <<function, fn_enclosing, fn_parameters, fn_items, fn_idx,
                   fn_directives, fn_statements, fn_parsed, fn_result>>
    /\ UNCHANGED notFnVars

\* parse_formal_parameters, on the Parser value the head chose.
ParseFormalParameters ==
    /\ fpc = "parameters"
    /\ fn_parameters' = Append(fn_parameters, fn_context)
    /\ IF function.parameters = "Err"
       THEN fpc' = "done" /\ fn_result' = "Err"
       ELSE fpc' = "body" /\ UNCHANGED fn_result
    /\ UNCHANGED <<function, fn_enclosing, fn_context, fn_items, fn_idx,
                   fn_directives, fn_statements, fn_parsed>>
    /\ UNCHANGED notFnVars

\* parse_function_body: one turn of the loop.
ParseFunctionBodyStep ==
    /\ fpc = "body"
    /\ IF fn_idx > Len(fn_items)
       THEN /\ fpc' = "done"
            /\ fn_result' = "Ok"
            /\ UNCHANGED <<fn_idx, fn_directives, fn_statements, fn_parsed>>
       ELSE LET stmt == fn_items[fn_idx]
                dir == is_directive(fn_statements, stmt)
            IN IF parse_stmt(stmt, "Script") = "Err"
               THEN /\ fpc' = "done"
                    /\ fn_result' = "Err"
                    /\ UNCHANGED <<fn_idx, fn_directives, fn_statements, fn_parsed>>
               ELSE /\ fn_parsed' =
                          Append(fn_parsed,
                                 [index |-> fn_idx, context |-> fn_context,
                                  list |-> IF dir THEN "directives" ELSE "statements"])
                    /\ fn_directives' =
                          IF dir THEN Append(fn_directives, stmt.value) ELSE fn_directives
                    /\ fn_statements' =
                          IF dir THEN fn_statements ELSE Append(fn_statements, stmt)
                    /\ fn_idx' = fn_idx + 1
                    /\ UNCHANGED <<fpc, fn_result>>
    /\ UNCHANGED <<function, fn_enclosing, fn_context, fn_parameters, fn_items>>
    /\ UNCHANGED notFnVars

FnNext ==
    \/ ParseFunctionHead
    \/ ParseFormalParameters
    \/ ParseFunctionBodyStep

\* ------------------------------------------------------------------ early errors (early_error.rs)

NoSpan == Span(-1, -1)

\* Ok(())
EeOk == [status |-> "Ok", kind |-> "none", message |-> "", span |-> NoSpan]

\* Error::syntax_error(message, span)
syntax_error(message, span) ==
    [status |-> "Err", kind |-> "SyntaxError", message |-> message, span |-> span]

NotValidated == [status |-> "none", kind |-> "none", message |-> "", span |-> NoSpan]

\* Expressions, as far as the early errors tell them apart.
IdentRef(name, at) == [kind |-> "IdentRef", name |-> name, span |-> Span(at, at + 1)]
Member(at) == [kind |-> "Member", span |-> Span(at, at + 1)]
Call(at) == [kind |-> "Call", span |-> Span(at, at + 1)]

\* ( expression ): the span takes in the two parentheses.
Parenthesized(expression) ==
    [kind |-> "Parenthesized", expression |-> expression,
     span |-> Span(expression.span.start - 1, expression.span.end + 1)]

\* The k-th element of a literal that starts at `at`: elements are one byte
\* wide and separated by a comma.
Element(kind, k, at) == [kind |-> kind, span |-> Span(at + 2 * k - 1, at + 2 * k)]

\* Literal::Array: [ e1, e2, ... ]
LitArray(kinds, at) ==
    [kind |-> "Array",
     elements |-> [k \in 1..Len(kinds) |-> Element(kinds[k], k, at)],
     span |-> Span(at, at + 2 * Len(kinds) + 1)]

\* Literal::Object: { p1, p2, ... }
LitObject(kinds, at) ==
    [kind |-> "Object",
     props |-> [k \in 1..Len(kinds) |-> Element(kinds[k], k, at)],
     span |-> Span(at, at + 2 * Len(kinds) + 1)]

RECURSIVE Wrap(_, _)
Wrap(expr, n) == IF n = 0 THEN expr ELSE Parenthesized(Wrap(expr, n - 1))

IdentNames == {"a", "arguments", "eval"}

KindSeqs(kinds) == UNION {[1..n -> kinds] : n \in 0..MaxElements}

\* Identifiers, members and calls under up to MaxParens parentheses; array and
\* object literals bare or under one.
Exprs ==
    {Wrap(IdentRef(name, MaxParens), n) : name \in IdentNames, n \in 0..MaxParens}
        \cup {Wrap(Member(MaxParens), n) : n \in 0..MaxParens}
        \cup {Wrap(Call(MaxParens), n) : n \in 0..MaxParens}
        \cup {Wrap(LitArray(ks, MaxParens), n) :
                ks \in KindSeqs({"Expr", "Spread", "None"}), n \in 0..1}
        \cup {Wrap(LitObject(ks, MaxParens), n) :
                ks \in KindSeqs({"Named", "Method", "Spread"}), n \in 0..1}

\* AssignmentOperator: `=` and two of the compound ones.
AssignmentOperators == {"Assign", "Add", "Power"}

\* The contexts of the Parser the validation is called on.
EeContexts == FnContexts

\* Faulty variant of is_assignment_target_type_simple: Strict is not looked at.
is_assignment_target_type_simple_any_mode(context, expr) ==
    [result |-> EeOk, value |-> expr.kind \in {"IdentRef", "Member"}]

\* is_assignment_target_type_simple: Ok(bool) or the strict-mode error (its
\* message is written here with ' where the source has a backquote).
is_assignment_target_type_simple(context, expr) ==
    CASE expr.kind = "IdentRef" ->
            IF context.is_strict /\ (expr.name = "arguments" \/ expr.name = "eval")
            THEN [result |-> syntax_error("Unexpected 'eval' or 'arguments' in strict mode",
                                          expr.span),
                  value |-> FALSE]
            ELSE [result |-> EeOk, value |-> TRUE]
      [] expr.kind = "Member" -> [result |-> EeOk, value |-> TRUE]
      [] OTHER -> [result |-> EeOk, value |-> FALSE]

validate_update_expression_argument(context, arg) ==
    LET simple == is_assignment_target_type_simple(context, arg)
    IN IF simple.result.status = "Err" THEN simple.result
       ELSE IF ~simple.value
            THEN syntax_error("Invalid update expression argument", arg.span)
       ELSE EeOk

\* Faulty variant of validate_delete_argument: parentheses are not removed.
validate_delete_argument_bare(context, arg) ==
    IF context.is_strict /\ arg.kind = "IdentRef"
    THEN syntax_error("Delete of an unqualified identifier in strict mode", arg.span)
    ELSE EeOk

RECURSIVE validate_delete_argument(_, _)
validate_delete_argument(context, arg) ==
    IF ~context.is_strict THEN EeOk
    ELSE CASE arg.kind = "IdentRef" ->
                  syntax_error("Delete of an unqualified identifier in strict mode", arg.span)
           [] arg.kind = "Parenthesized" -> validate_delete_argument(context, arg.expression)
           [] OTHER -> EeOk

\* Faulty variant of array_literal_loop: the last element is tested as well.
RECURSIVE array_literal_loop_to_end(_, _)
array_literal_loop_to_end(elements, k) ==
    IF k > Len(elements) THEN EeOk
    ELSE IF elements[k].kind = "Spread"
         THEN syntax_error("Rest element must be last element", elements[k].span)
    ELSE array_literal_loop_to_end(elements, k + 1)

\* validate_array_literal_cover_assignment: the loop, from element k on.
RECURSIVE array_literal_loop(_, _)
array_literal_loop(elements, k) ==
    IF k > Len(elements) THEN EeOk
    ELSE IF k = Len(elements) THEN EeOk
    ELSE IF elements[k].kind = "Spread"
         THEN syntax_error("Rest element must be last element", elements[k].span)
    ELSE array_literal_loop(elements, k + 1)

validate_array_literal_cover_assignment(array) == array_literal_loop(array.elements, 1)

\* validate_object_literal_cover_assignment: the loop, from property k on.
RECURSIVE object_literal_loop(_, _)
object_literal_loop(props, k) ==
    IF k > Len(props) THEN EeOk
    ELSE IF props[k].kind = "Method"
         THEN syntax_error("Invalid destructuring assignment target", props[k].span)
    ELSE IF k < Len(props) /\ props[k].kind = "Spread"
         THEN syntax_error("Rest element must be last element", props[k].span)
    ELSE object_literal_loop(props, k + 1)

validate_object_literal_cover_assignment(object) == object_literal_loop(object.props, 1)

\* Faulty variant of is_cover_assignment: the operator is not looked at.
is_cover_assignment_any_operator(expr, op) == expr.kind \in {"Array", "Object"}

\* The test of validate_left_side_expr that sends a literal to the cover checks.
is_cover_assignment(expr, op) == op = "Assign" /\ expr.kind \in {"Array", "Object"}

validate_left_side_expr(context, expr, op) ==
    IF is_cover_assignment(expr, op)
    THEN IF expr.kind = "Array"
         THEN validate_array_literal_cover_assignment(expr)
         ELSE validate_object_literal_cover_assignment(expr)
    ELSE LET simple == is_assignment_target_type_simple(context, expr)
         IN IF simple.result.status = "Err" THEN simple.result
            ELSE IF ~simple.value
                 THEN syntax_error("Invalid left-hand side assignment", expr.span)
            ELSE EeOk

\* Parameter names, in the order `str` compares them.
ParamNames == <<"a", "b", "c">>

Rank(name) == CHOOSE k \in 1..Len(ParamNames) : ParamNames[k] = name

\* Faulty variant of sort_unstable: the list is left as it is.
sort_unstable_skipped(list) == list

\* bound_names.sort_unstable()
sort_unstable(list) == SortSeq(list, LAMBDA x, y : Rank(x) < Rank(y))

\* The bound names of a binding pattern: one for an identifier, two for a
\* destructuring pattern that binds two names.
Patterns ==
    {<<ParamNames[i]>> : i \in 1..Len(ParamNames)}
        \cup {<<ParamNames[i], ParamNames[j]>> : i, j \in 1..Len(ParamNames)}

\* FormalParameters: `bindings` (each by its bound names), `rest` (<<>>: None)
\* and `span`.
FormalParameters ==
    {[kind |-> "FormalParameters", bindings |-> b, rest |-> r,
      span |-> Span(0, 2 * Len(b) + Len(r) + 2)] :
        b \in UNION {[1..n -> Patterns] : n \in 0..MaxParams},
        r \in {<<>>} \cup {<<ParamNames[i]>> : i \in 1..Len(ParamNames)}}

RECURSIVE flat_map(_)
flat_map(bindings) ==
    IF bindings = <<>> THEN <<>> ELSE Head(bindings) \o flat_map(Tail(bindings))

\* get_bound_names: the names of the bindings in order, then those of the rest.
get_bound_names(params) == flat_map(params.bindings) \o params.rest

\* get_first_duplicate: Some(item) for the first item equal to the one after it
\* (<<item>>), None otherwise (<<>>).
RECURSIVE get_first_duplicate(_)
get_first_duplicate(list) ==
    IF Len(list) < 2 THEN <<>>
    ELSE IF list[1] = list[2] THEN <<list[1]>>
    ELSE get_first_duplicate(Tail(list))

validate_unique_formal_parameters(params) ==
    LET bound_names == sort_unstable(get_bound_names(params))
        first_duplicate == get_first_duplicate(bound_names)
    IN IF first_duplicate # <<>>
       THEN syntax_error("Found duplicate parameter '" \o first_duplicate[1]
                            \o "', duplicates not allowed here",
                         params.span)
       ELSE EeOk

Validations ==
    {"validate_left_side_expr", "validate_update_expression_argument",
     "validate_delete_argument", "validate_unique_formal_parameters"}

EeIdle ==
    /\ validation = "none"
    /\ ee_context = Context_default
    /\ argument = Call(0)
    /\ operator = "none"
    /\ ee_result = NotValidated

EeStart ==
    /\ validation \in Validations
    /\ ee_context \in EeContexts
    /\ argument \in IF validation = "validate_unique_formal_parameters"
                    THEN FormalParameters ELSE Exprs
    /\ operator \in IF validation = "validate_left_side_expr"
                    THEN AssignmentOperators ELSE {"none"}
    /\ ee_result = NotValidated

ValidateLeftSideExpr ==
    /\ validation = "validate_left_side_expr"
    /\ ee_result = NotValidated
    /\ ee_result' = validate_left_side_expr(ee_context, argument, operator)
    /\ UNCHANGED <<validation, ee_context, argument, operator>>
    /\ UNCHANGED notEeVars

ValidateUpdateExpressionArgument ==
    /\ validation = "validate_update_expression_argument"
    /\ ee_result = NotValidated
    /\ ee_result' = validate_update_expression_argument(ee_context, argument)
    /\ UNCHANGED <<validation, ee_context, argument, operator>>
    /\ UNCHANGED notEeVars

ValidateDeleteArgument ==
    /\ validation = "validate_delete_argument"
    /\ ee_result = NotValidated
    /\ ee_result' = validate_delete_argument(ee_context, argument)
    /\ UNCHANGED <<validation, ee_context, argument, operator>>
    /\ UNCHANGED notEeVars

ValidateUniqueFormalParameters ==
    /\ validation = "validate_unique_formal_parameters"
    /\ ee_result = NotValidated
    /\ ee_result' = validate_unique_formal_parameters(argument)
    /\ UNCHANGED <<validation, ee_context, argument, operator>>
    /\ UNCHANGED notEeVars

EeNext ==
    \/ ValidateLeftSideExpr
    \/ ValidateUpdateExpressionArgument
    \/ ValidateDeleteArgument
    \/ ValidateUniqueFormalParameters

\* ------------------------------------------------------------------ for statements (iteration.rs)

\* The iteration statements of the input. `shape`: "while", "do", or for a
\* `for` what follows the first part of the header: "for" a `;`, "in", "of",
\* "other" any other token. `await`: the token after `for` is `await`.
\* `init`: the first part: "none" (the header starts with `;`), "expr",
\* "declaration" (var, let or const). `init_ok`: whether parse_for_init can
\* parse it. `test`, `update`: "none" when absent, else what parse_expr
\* returns. `left_ok`, `right_ok`, `body`: what parse_for_declaration, the
\* parse_expr of the right-hand side and the parse_stmt of the body return.
\* `semicolon`: a `;` follows the `)` of a do-while.
ForHeads ==
    {h \in [await : BOOLEAN, shape : {"for", "in", "of", "other", "while", "do"},
            init : {"none", "expr", "declaration"}, init_ok : BOOLEAN,
            test : {"none", "Ok", "Err"}, update : {"none", "Ok", "Err"},
            left_ok : BOOLEAN, right_ok : BOOLEAN, body : {"Ok", "Err"},
            semicolon : BOOLEAN] :
        /\ h.init = "none" => h.shape \in {"for", "while", "do"} /\ h.init_ok
        /\ h.shape # "for" => h.update = "none"
        /\ h.shape \in {"in", "of", "other"} => h.test = "none"
        /\ h.shape \in {"for", "while", "do"} => h.left_ok /\ h.right_ok
        /\ h.shape = "other" => h.right_ok /\ h.body = "Ok"
        /\ h.shape \in {"while", "do"} => ~h.await /\ h.init = "none" /\ h.test # "none"
        /\ h.semicolon => h.shape = "do"}

NoFor ==
    [await |-> FALSE, shape |-> "none", init |-> "none", init_ok |-> TRUE,
     test |-> "none", update |-> "none", left_ok |-> TRUE, right_ok |-> TRUE,
     body |-> "Ok", semicolon |-> FALSE]

\* The token values of the first part of a `for` header.
ForInitValues(head) ==
    CASE head.init = "none" -> <<>>
      [] head.init = "expr" -> <<"expr">>
      [] head.init = "declaration" -> <<"var", "binding">>

\* The token values of the statement, one token for each expression and for
\* the body, and the token that follows the statement.
ForTokenValues(head) ==
    LET optional(part) == IF part = "none" THEN <<>> ELSE <<"expr">>
    IN (CASE head.shape = "while" -> <<"while", "(", "expr", ")", "stmt">>
          [] head.shape = "do" ->
                <<"do", "stmt", "while", "(", "expr", ")">>
                    \o (IF head.semicolon THEN <<";">> ELSE <<>>)
          [] head.shape = "for" ->
                <<"for">> \o (IF head.await THEN <<"await">> ELSE <<>>) \o <<"(">>
                    \o ForInitValues(head) \o <<";">> \o optional(head.test) \o <<";">>
                    \o optional(head.update) \o <<")", "stmt">>
          [] head.shape \in {"in", "of"} ->
                <<"for">> \o (IF head.await THEN <<"await">> ELSE <<>>) \o <<"(">>
                    \o ForInitValues(head) \o <<head.shape, "expr", ")", "stmt">>
          [] OTHER ->
                <<"for">> \o (IF head.await THEN <<"await">> ELSE <<>>) \o <<"(">>
                    \o ForInitValues(head) \o <<"other">>)
       \o <<"next">>

\* The tokens the lexer yields for the statement: the k-th is two characters
\* wide and one character of whitespace separates it from the next.
ForTokens(head) ==
    [k \in 1..Len(ForTokenValues(head)) |->
        [value |-> ForTokenValues(head)[k], first_on_line |-> FALSE,
         span |-> Span(3 * (k - 1), 3 * (k - 1) + 2)]]

\* PeekReader::position: the end of the token consumed last.
reader_position(toks, p) == IF p = 1 THEN 0 ELSE toks[p - 1].span.end

\* Parser::position
position(toks, p) ==
    IF reader_is_end(toks, p) THEN reader_position(toks, p) ELSE toks[p].span.start

\* Faulty variant of span_from: the span ends where the current token starts.
span_from_to_current(toks, p, span_start) == Span(span_start, position(toks, p))

\* Parser::span_from
span_from(toks, p, span_start) == Span(span_start, reader_position(toks, p))

\* The span of a node whose sub-parser read the tokens p .. q - 1.
SubSpan(toks, p, q) == span_from(toks, q, position(toks, p))

ForRunning == [status |-> "none", kind |-> "none", asynchronous |-> FALSE]
ForOk(node, async) == [status |-> "Ok", kind |-> node, asynchronous |-> async]
\* Err(error): by the kind of the error; "SubParser" stands for the error a
\* sub-parser (parse_expr, parse_for_declaration, parse_stmt) returned.
ForErr(kind) == [status |-> "Err", kind |-> kind, asynchronous |-> FALSE]

\* parse_for_stmt: `self.context.is_await && self.maybe_consume(&keyword!("await"))?`
for_asynchronous(context, head) == context.is_await /\ head.await

\* parse_for_stmt: consume_assert(`(`) meets `await` when it was not consumed.
for_open_paren_ok(head, async) == ~head.await \/ async

\* Faulty variant of for_init_context: the init is parsed under the context as
\* it is.
for_init_context_unchanged(context) == context

\* parse_for_init, parse_for_init_variable_declaration: self.context.with_in(false)
for_init_context(context) == with_in(context, FALSE)

\* try_parse_for (test, update), parse_for_in, parse_for_of (right):
\* self.context.with_in(true)
for_expr_context(context) == with_in(context, TRUE)

\* try_parse_for after the first `;`, parse_for_in_of on `in`: `if asynchronous`
for_await_needs_of(async) == async

\* Faulty variant of try_parse_for_gives_up: a failed ForInit is taken for an
\* absent one and the parse goes on with the C-style `for`.
try_parse_for_gives_up_without_semicolon(init_ok, semicolon) == init_ok /\ ~semicolon

\* try_parse_for returns Ok(None): the ForInit failed to parse, or no `;`
\* follows it.
try_parse_for_gives_up(init_ok, semicolon) == ~init_ok \/ ~semicolon

ForParsed(part, context) == [part |-> part, context |-> context]

ForIdle ==
    /\ for_head = NoFor
    /\ for_context = Context_default
    /\ for_pc = "idle"
    /\ asynchronous = FALSE
    /\ for_parsed = <<>>
    /\ for_result = ForRunning
    /\ for_tokens = <<>>
    /\ for_reader = 1
    /\ start_token = NoToken
    /\ first_semicolon = FALSE
    /\ rewinds = 0
    /\ for_spans = <<>>
    /\ for_span = NoSpan

ForStart ==
    /\ for_head \in ForHeads
    /\ for_context \in [ContextFields -> BOOLEAN]
    /\ for_pc = "head"
    /\ asynchronous = FALSE
    /\ for_parsed = <<>>
    /\ for_result = ForRunning
    /\ for_tokens = ForTokens(for_head)
    /\ for_reader = 1
    /\ start_token = NoToken
    /\ first_semicolon = FALSE
    /\ rewinds = 0
    /\ for_spans = <<>>
    /\ for_span = NoSpan

\* parse_for_stmt: `for`, `await`?, `(`, and the clone of the token after it.
ParseForStmt ==
    /\ for_pc = "head"
    /\ for_head.shape \in {"for", "in", "of", "other"}
    /\ asynchronous' = for_asynchronous(for_context, for_head)
    /\ IF for_open_paren_ok(for_head, asynchronous')
       THEN /\ for_pc' = "init"
            /\ for_reader' = IF asynchronous' THEN 4 ELSE 3
            /\ start_token' = reader_current(for_tokens, for_reader')
            /\ UNCHANGED for_result
       ELSE /\ for_pc' = "done"
            /\ for_reader' = 3
            /\ for_result' = ForErr("ExpectedOther")
            /\ UNCHANGED start_token
    /\ UNCHANGED <<for_head, for_context, for_parsed, for_tokens, first_semicolon,
                   rewinds, for_spans, for_span>>
    /\ UNCHANGED notForVars

\* try_parse_for: parse_optional_for_init, the first `;`, the `for await` test.
\* A ForInit that fails has read `n` of its tokens.
TryParseForInit ==
    /\ for_pc = "init"
    /\ \E n \in 0..Len(ForInitValues(for_head)) :
          /\ for_head.init_ok => n = Len(ForInitValues(for_head))
          /\ LET after == for_reader + n
                 semicolon ==
                     for_head.init_ok /\ reader_current(for_tokens, after).value = ";"
             IN /\ for_parsed' =
                      IF for_head.init = "none" THEN for_parsed
                      ELSE Append(for_parsed,
                                  ForParsed("init", for_init_context(for_context)))
                /\ for_spans' =
                      IF for_head.init = "none" THEN for_spans
                      ELSE Append(for_spans, SubSpan(for_tokens, for_reader, after))
                /\ first_semicolon' = semicolon
                /\ for_reader' = IF semicolon THEN after + 1 ELSE after
                /\ IF try_parse_for_gives_up(for_head.init_ok, semicolon)
                   THEN for_pc' = "rewind" /\ UNCHANGED for_result
                   ELSE IF for_await_needs_of(asynchronous)
                        THEN for_pc' = "done" /\ for_result' = ForErr("SyntaxError")
                   ELSE for_pc' = "test" /\ UNCHANGED for_result
    /\ UNCHANGED <<for_head, for_context, asynchronous, for_tokens, start_token,
                   rewinds, for_span>>
    /\ UNCHANGED notForVars

\* try_parse_for: the test, the second `;`, the update, `)`.
TryParseForTestUpdate ==
    /\ for_pc = "test"
    /\ LET test == IF for_head.test = "none" THEN <<>>
                   ELSE <<ForParsed("test", for_expr_context(for_context))>>
           update == IF for_head.update = "none" THEN <<>>
                     ELSE <<ForParsed("update", for_expr_context(for_context))>>
           after_test == IF for_head.test = "none" THEN for_reader ELSE for_reader + 1
           test_span == IF for_head.test = "none" THEN <<>>
                        ELSE <<SubSpan(for_tokens, for_reader, after_test)>>
           after_update ==
               IF for_head.update = "none" THEN after_test + 1 ELSE after_test + 2
           update_span == IF for_head.update = "none" THEN <<>>
                          ELSE <<SubSpan(for_tokens, after_test + 1, after_update)>>
       IN IF for_head.test = "Err"
          THEN /\ for_parsed' = for_parsed \o test
               /\ for_spans' = for_spans \o <<NoSpan>>
               /\ for_pc' = "done"
               /\ for_result' = ForErr("SubParser")
               /\ UNCHANGED for_reader
          ELSE IF for_head.update = "Err"
               THEN /\ for_parsed' = for_parsed \o test \o update
                    /\ for_spans' = for_spans \o test_span \o <<NoSpan>>
                    /\ for_pc' = "done"
                    /\ for_result' = ForErr("SubParser")
                    /\ for_reader' = after_test + 1
          ELSE /\ for_parsed' = for_parsed \o test \o update
               /\ for_spans' = for_spans \o test_span \o update_span
               /\ for_pc' = "body"
               /\ for_reader' = after_update + 1
               /\ UNCHANGED for_result
    /\ UNCHANGED <<for_head, for_context, asynchronous, for_tokens, start_token,
                   first_semicolon, rewinds, for_span>>
    /\ UNCHANGED notForVars

\* parse_for_stmt: rewind_to(&start_token); parse_for_in_of: the declaration
\* and the match on the token after it.
ParseForInOf ==
    /\ for_pc = "rewind"
    /\ rewinds' = rewinds + 1
    /\ LET from == rewind_to(for_tokens, start_token)
           after == from + Len(ForInitValues(for_head))
       IN /\ for_parsed' = Append(for_parsed, ForParsed("left", for_context))
          /\ IF ~for_head.left_ok
             THEN /\ for_pc' = "done"
                  /\ for_result' = ForErr("SubParser")
                  /\ for_spans' = Append(for_spans, Span(position(for_tokens, from), -1))
                  /\ for_reader' = from
             ELSE /\ for_spans' = Append(for_spans, SubSpan(for_tokens, from, after))
                  /\ IF reader_current(for_tokens, after).value \notin {"in", "of"}
                     THEN /\ for_pc' = "done"
                          /\ for_result' = ForErr("UnexpectedToken")
                          /\ for_reader' = after + 1
                     ELSE IF reader_current(for_tokens, after).value = "in"
                             /\ for_await_needs_of(asynchronous)
                          THEN /\ for_pc' = "done"
                               /\ for_result' = ForErr("SyntaxError")
                               /\ for_reader' = after
                     ELSE /\ for_pc' = "right"
                          /\ for_reader' = after + 1
                          /\ UNCHANGED for_result
    /\ UNCHANGED <<for_head, for_context, asynchronous, for_tokens, start_token,
                   first_semicolon, for_span>>
    /\ UNCHANGED notForVars

\* parse_for_in, parse_for_of: the right-hand expression and `)`.
ParseForRight ==
    /\ for_pc = "right"
    /\ for_parsed' = Append(for_parsed, ForParsed("right", for_expr_context(for_context)))
    /\ IF for_head.right_ok
       THEN /\ for_pc' = "body"
            /\ for_spans' = Append(for_spans, SubSpan(for_tokens, for_reader, for_reader + 1))
            /\ for_reader' = for_reader + 2
            /\ UNCHANGED for_result
       ELSE /\ for_pc' = "done"
            /\ for_spans' = Append(for_spans, NoSpan)
            /\ for_result' = ForErr("SubParser")
            /\ UNCHANGED for_reader
    /\ UNCHANGED <<for_head, for_context, asynchronous, for_tokens, start_token,
                   first_semicolon, rewinds, for_span>>
    /\ UNCHANGED notForVars

\* try_parse_for, parse_for_in, parse_for_of: the body and the node.
ParseForBody ==
    /\ for_pc = "body"
    /\ for_parsed' = Append(for_parsed, ForParsed("body", for_context))
    /\ for_pc' = "done"
    /\ IF for_head.body = "Err"
       THEN /\ for_result' = ForErr("SubParser")
            /\ for_spans' = Append(for_spans, NoSpan)
            /\ UNCHANGED <<for_reader, for_span>>
       ELSE /\ for_result' =
                  CASE for_head.shape = "for" -> ForOk("StmtFor", FALSE)
                    [] for_head.shape = "in" -> ForOk("StmtForIn", FALSE)
                    [] for_head.shape = "of" -> ForOk("StmtForOf", asynchronous)
            /\ for_spans' = Append(for_spans, SubSpan(for_tokens, for_reader, for_reader + 1))
            /\ for_reader' = for_reader + 1
            /\ for_span' = span_from(for_tokens, for_reader', position(for_tokens, 1))
    /\ UNCHANGED <<for_head, for_context, asynchronous, for_tokens, start_token,
                   first_semicolon, rewinds>>
    /\ UNCHANGED notForVars

\* parse_while_stmt: `while`, `(`, the test, `)`, the body and the node.
ParseWhileStmt ==
    /\ for_pc = "head"
    /\ for_head.shape = "while"
    /\ for_pc' = "done"
    /\ LET test == ForParsed("test", for_expr_context(for_context))
           stmt == ForParsed("body", for_context)
       IN IF for_head.test = "Err"
          THEN /\ for_parsed' = <<test>>
               /\ for_spans' = <<NoSpan>>
               /\ for_reader' = 3
               /\ for_result' = ForErr("SubParser")
               /\ UNCHANGED for_span
          ELSE IF for_head.body = "Err"
               THEN /\ for_parsed' = <<test, stmt>>
                    /\ for_spans' = <<SubSpan(for_tokens, 3, 4), NoSpan>>
                    /\ for_reader' = 5
                    /\ for_result' = ForErr("SubParser")
                    /\ UNCHANGED for_span
          ELSE /\ for_parsed' = <<test, stmt>>
               /\ for_spans' = <<SubSpan(for_tokens, 3, 4), SubSpan(for_tokens, 5, 6)>>
               /\ for_reader' = 6
               /\ for_result' = ForOk("StmtWhile", FALSE)
               /\ for_span' = span_from(for_tokens, for_reader', position(for_tokens, 1))
    /\ UNCHANGED <<for_head, for_context, asynchronous, for_tokens, start_token,
                   first_semicolon, rewinds>>
    /\ UNCHANGED notForVars

\* parse_do_while_stmt: `do`, the body, `while`, `(`, the test, `)`, `;`? and
\* the node.
ParseDoWhileStmt ==
    /\ for_pc = "head"
    /\ for_head.shape = "do"
    /\ for_pc' = "done"
    /\ LET test == ForParsed("test", for_expr_context(for_context))
           stmt == ForParsed("body", for_context)
       IN IF for_head.body = "Err"
          THEN /\ for_parsed' = <<stmt>>
               /\ for_spans' = <<NoSpan>>
               /\ for_reader' = 2
               /\ for_result' = ForErr("SubParser")
               /\ UNCHANGED for_span
          ELSE IF for_head.test = "Err"
               THEN /\ for_parsed' = <<stmt, test>>
                    /\ for_spans' = <<SubSpan(for_tokens, 2, 3), NoSpan>>
                    /\ for_reader' = 5
                    /\ for_result' = ForErr("SubParser")
                    /\ UNCHANGED for_span
          ELSE /\ for_parsed' = <<stmt, test>>
               /\ for_spans' = <<SubSpan(for_tokens, 2, 3), SubSpan(for_tokens, 5, 6)>>
               /\ for_reader' = IF reader_current(for_tokens, 7).value = ";" THEN 8 ELSE 7
               /\ for_result' = ForOk("StmtDoWhile", FALSE)
               /\ for_span' = span_from(for_tokens, for_reader', position(for_tokens, 1))
    /\ UNCHANGED <<for_head, for_context, asynchronous, for_tokens, start_token,
                   first_semicolon, rewinds>>
    /\ UNCHANGED notForVars

ForNext ==
    \/ ParseForStmt
    \/ TryParseForInit
    \/ TryParseForTestUpdate
    \/ ParseForInOf
    \/ ParseForRight
    \/ ParseForBody
    \/ ParseWhileStmt
    \/ ParseDoWhileStmt

\* ------------------------------------------------------------------ character reader (reader.rs)

\* The scalars of the inputs: "a" and "b" of one byte, "E" for a scalar of two
\* bytes (U+00E9).
Scalars == {"a", "b", "E"}

\* char::len_utf8
len_utf8(c) == IF c = "E" THEN 2 ELSE 1

Inputs == UNION {[1..n -> Scalars] : n \in 0..MaxInput}

\* The predicates handed to read_until, by the scalars they accept.
Checks == {{"a"}, {"a", "E"}, Scalars}

\* Option<(usize, char)>::None
NoChar == <<-1, "">>

RECURSIVE byte_offset(_, _)
byte_offset(text, k) ==
    IF k = 1 THEN 0 ELSE byte_offset(text, k - 1) + len_utf8(text[k - 1])

\* str::char_indices: each scalar with the byte offset it starts at.
char_indices(text) == [k \in 1..Len(text) |-> <<byte_offset(text, k), text[k]>>]

\* CharIndices::next after `taken` items were taken
iter_next(text, taken) ==
    IF taken < Len(text) THEN char_indices(text)[taken + 1] ELSE NoChar

NoReader ==
    [iter |-> 0, current |-> NoChar, next |-> NoChar, position |-> 0,
     end_of_file |-> FALSE]

NoCall == [name |-> "none", status |-> "none", value |-> <<>>]
ReaderOk(name, value) == [name |-> name, status |-> "Ok", value |-> value]
ReaderErr(name) == [name |-> name, status |-> "Err", value |-> <<"EndOfFile">>]

\* Reader::new
Reader_new(text) ==
    IF iter_next(text, 0) = NoChar
    THEN [reader |-> NoReader, returned |-> ReaderErr("new")]
    ELSE [reader |-> [iter |-> IF Len(text) >= 2 THEN 2 ELSE 1,
                      current |-> iter_next(text, 0),
                      next |-> iter_next(text, 1),
                      position |-> 0,
                      end_of_file |-> FALSE],
          returned |-> ReaderOk("new", <<>>)]

\* Faulty variant of Reader_next: the position is advanced also at the end.
Reader_next_counts_at_end(text, r) ==
    LET counted == [r EXCEPT !.position = r.position + 1]
    IN IF r.next # NoChar
       THEN [reader |-> [counted EXCEPT !.current = r.next,
                                        !.next = iter_next(text, r.iter),
                                        !.iter = IF r.iter < Len(text)
                                                 THEN r.iter + 1 ELSE r.iter],
             returned |-> ReaderOk("next", <<r.next[2]>>)]
       ELSE [reader |-> [counted EXCEPT !.end_of_file = TRUE],
             returned |-> ReaderErr("next")]

\* Reader::next
Reader_next(text, r) ==
    LET counted == IF ~r.end_of_file THEN [r EXCEPT !.position = r.position + 1]
                   ELSE r
    IN IF r.next # NoChar
       THEN [reader |-> [counted EXCEPT !.current = r.next,
                                        !.next = iter_next(text, r.iter),
                                        !.iter = IF r.iter < Len(text)
                                                 THEN r.iter + 1 ELSE r.iter],
             returned |-> ReaderOk("next", <<r.next[2]>>)]
       ELSE [reader |-> [counted EXCEPT !.end_of_file = TRUE],
             returned |-> ReaderErr("next")]

\* Reader::consume
Reader_consume(text, r) ==
    IF r.end_of_file
    THEN [reader |-> r, returned |-> ReaderErr("consume")]
    ELSE [reader |-> Reader_next(text, r).reader, returned |-> ReaderOk("consume", <<>>)]

\* Reader::read_until, the loop: `string` is the `result` read so far.
RECURSIVE read_until_loop(_, _, _, _)
read_until_loop(text, r, check, string) ==
    LET step == Reader_next(text, r)
    IN IF step.returned.status = "Ok"
       THEN IF step.returned.value[1] \in check
            THEN read_until_loop(text, step.reader, check,
                                 Append(string, step.returned.value[1]))
            ELSE [reader |-> step.reader, returned |-> ReaderOk("read_until", string)]
       ELSE [reader |-> step.reader, returned |-> ReaderOk("read_until", string)]

\* Reader::read_until
Reader_read_until(text, r, check) == read_until_loop(text, r, check, <<r.current[2]>>)

ReaderIdle ==
    /\ input = <<>>
    /\ reader = NoReader
    /\ reader_returned = NoCall

ReaderStart ==
    /\ input \in Inputs
    /\ reader = NoReader
    /\ reader_returned = NoCall

CallNew ==
    /\ reader_returned = NoCall
    /\ reader' = Reader_new(input).reader
    /\ reader_returned' = Reader_new(input).returned
    /\ UNCHANGED input
    /\ UNCHANGED notReaderVars

CallNext ==
    /\ reader # NoReader
    /\ reader' = Reader_next(input, reader).reader
    /\ reader_returned' = Reader_next(input, reader).returned
    /\ UNCHANGED input
    /\ UNCHANGED notReaderVars

CallConsume ==
    /\ reader # NoReader
    /\ reader' = Reader_consume(input, reader).reader
    /\ reader_returned' = Reader_consume(input, reader).returned
    /\ UNCHANGED input
    /\ UNCHANGED notReaderVars

CallReadUntil ==
    /\ reader # NoReader
    /\ \E check \in Checks :
          /\ reader' = Reader_read_until(input, reader, check).reader
          /\ reader_returned' = Reader_read_until(input, reader, check).returned
    /\ UNCHANGED input
    /\ UNCHANGED notReaderVars

ReaderNext ==
    \/ CallNew
    \/ CallNext
    \/ CallConsume
    \/ CallReadUntil

\* ------------------------------------------------------------------ lexer (lexer/src/lib.rs)

\* The characters of the source texts: a letter, a digit, a space, `;`, `=`
\* and an operator that takes `=`.
Chars == {"a", "1", " ", ";", "=", "+"}

Texts == UNION {[1..n -> Chars] : n \in 0..MaxChars}

\* CodePoint::is_ecma_whitespace
is_ecma_whitespace(c) == c = " "

\* CodePoint::is_start_of_identifier
is_start_of_identifier(c) == c = "a"

\* CodePoint::is_part_of_identifier
is_part_of_identifier(c) == c \in {"a", "1"}

\* char::is_alphanumeric
is_alphanumeric(c) == c \in {"a", "1"}

\* str::parse::<i64> succeeds
parses_as_i64(word) == \A k \in 1..Len(word) : word[k] = "1"

\* The Reader of lib.rs by the index of its current character and its column;
\* the line stays 0.
ColumnReader(at, column) == [at |-> at, column |-> column]

\* Reader::current
column_reader_current(text, r) == text[r.at]

\* Reader::peek; "" for None
column_reader_peek(text, r) == IF r.at < Len(text) THEN text[r.at + 1] ELSE ""

\* Faulty variant of column_reader_next: the column is advanced by 2.
column_reader_next_by_two(text, r) ==
    IF r.at < Len(text)
    THEN [status |-> "Ok", reader |-> ColumnReader(r.at + 1, r.column + 2)]
    ELSE [status |-> "Err", reader |-> r]

\* Reader::next
column_reader_next(text, r) ==
    IF r.at < Len(text)
    THEN [status |-> "Ok", reader |-> ColumnReader(r.at + 1, r.column + 1)]
    ELSE [status |-> "Err", reader |-> r]

\* Lexer::skip_whitespaces
RECURSIVE skip_whitespaces(_, _)
skip_whitespaces(text, r) ==
    IF is_ecma_whitespace(column_reader_current(text, r))
          \/ column_reader_current(text, r) = ";"
    THEN IF column_reader_next(text, r).status = "Err"
         THEN [status |-> "Err", reader |-> r]
         ELSE skip_whitespaces(text, column_reader_next(text, r).reader)
    ELSE [status |-> "Ok", reader |-> r]

\* The loop of read_number (part = "alphanumeric") and of
\* read_identifier_or_keyword (part = "identifier"): `self.reader.next().unwrap()`
RECURSIVE read_word(_, _, _, _)
read_word(text, r, part, word) ==
    LET step == column_reader_next(text, r)
        c == column_reader_current(text, step.reader)
    IN IF step.status = "Err"
       THEN [status |-> "Panic", reader |-> r, word |-> word]
       ELSE IF (part = "alphanumeric" /\ is_alphanumeric(c))
                  \/ (part = "identifier" /\ is_part_of_identifier(c))
            THEN read_word(text, step.reader, part, Append(word, c))
            ELSE [status |-> "Ok", reader |-> step.reader, word |-> word]

\* Lexer::read_number
read_number(text, r) ==
    LET read == read_word(text, r, "alphanumeric", <<column_reader_current(text, r)>>)
    IN IF read.status = "Ok" /\ ~parses_as_i64(read.word)
       THEN [status |-> "Panic", reader |-> read.reader, value |-> "none"]
       ELSE [status |-> read.status, reader |-> read.reader, value |-> "Number"]

\* Lexer::read_identifier_or_keyword
read_identifier_or_keyword(text, r) ==
    LET read == read_word(text, r, "identifier", <<column_reader_current(text, r)>>)
    IN [status |-> read.status, reader |-> read.reader, value |-> "Identifier"]

\* Lexer::next, the match on the current character
lexer_next_value(text, r) ==
    LET current == column_reader_current(text, r)
        one == column_reader_next(text, r)
        two == column_reader_next(text, one.reader)
    IN CASE current = "=" /\ column_reader_peek(text, r) # "=" ->
                [status |-> one.status, reader |-> one.reader, value |-> "Assign(None)"]
         [] current = "+" /\ column_reader_peek(text, r) = "=" ->
                [status |-> two.status, reader |-> two.reader, value |-> "Assign(Add)"]
         [] current = "1" -> read_number(text, r)
         [] is_start_of_identifier(current) -> read_identifier_or_keyword(text, r)
         [] OTHER -> [status |-> "Panic", reader |-> r, value |-> "none"]

NoLexToken == [value |-> "none", span |-> NoSpan]

\* Lexer::next
Lexer_next(text, r) ==
    LET skipped == skip_whitespaces(text, r)
        span_start == skipped.reader.column
        read == lexer_next_value(text, skipped.reader)
        span_end == read.reader.column
    IN IF skipped.status = "Err"
       THEN [status |-> "Err", reader |-> skipped.reader, token |-> NoLexToken]
       ELSE IF read.status # "Ok"
            THEN [status |-> read.status, reader |-> read.reader, token |-> NoLexToken]
       ELSE [status |-> "Ok", reader |-> read.reader,
             token |-> [value |-> read.value, span |-> Span(span_start, span_end)]]

LexIdle ==
    /\ data = <<>>
    /\ lexer = ColumnReader(0, 0)
    /\ lexed = <<>>
    /\ lex_status = "idle"

LexStart ==
    /\ data \in Texts
    /\ lexer = ColumnReader(0, 0)
    /\ lexed = <<>>
    /\ lex_status = "new"

\* Lexer::new, Reader::new
LexerNew ==
    /\ lex_status = "new"
    /\ IF data = <<>>
       THEN lex_status' = "Err" /\ UNCHANGED lexer
       ELSE lex_status' = "Ok" /\ lexer' = ColumnReader(1, 0)
    /\ UNCHANGED <<data, lexed>>
    /\ UNCHANGED notLexVars

\* Lexer::read: one turn of the loop, a call of Lexer::next.
LexerNext ==
    /\ lex_status = "Ok"
    /\ lexer' = Lexer_next(data, lexer).reader
    /\ lex_status' = Lexer_next(data, lexer).status
    /\ lexed' = IF Lexer_next(data, lexer).status = "Ok"
                THEN Append(lexed, Lexer_next(data, lexer).token)
                ELSE lexed
    /\ UNCHANGED data
    /\ UNCHANGED notLexVars

LexNext ==
    \/ LexerNew
    \/ LexerNext

\* ------------------------------------------------------------------ import declarations (module.rs)

\* The tokens that may follow `import`, by value: an identifier, the keywords
\* `as` and `from` (allowed as identifiers), `class` (a reserved word), a
\* string and a number literal, punctuators, and the end of the stream.
ImportAlphabet ==
    {"ident", "as", "from", "class", "string", "number", ",", "*", "{", "}", ";", "EOF"}

\* The token after a token whose consume ended the parse with an error: it is
\* not looked at.
NotRead == "?"

\* is_identifier (lib.rs): an identifier, or a keyword allowed as identifier.
import_is_identifier(token) == token \in {"ident", "as", "from"}

\* parse_identifier: the error for the token it consumed, "none" when it is Ok.
parse_identifier_error(token) ==
    CASE token = "EOF" -> "EndOfStream"
      [] import_is_identifier(token) -> "none"
      [] token = "class" -> "ForbiddenIdentifier"
      [] OTHER -> "ExpectedIdent"

\* consume_assert: the error for the token it consumed, "none" when it is Ok.
consume_assert_error(token, expected) ==
    CASE token = "EOF" -> "EndOfStream"
      [] token # expected -> "ExpectedOther"
      [] OTHER -> "none"

\* Option<Vec<NamedImport>>, by the length of the Vec
NoNamedImports == [some |-> FALSE, len |-> 0]
NamedImports(n) == [some |-> TRUE, len |-> n]

\* DeclImport, its Options by whether they are Some
DeclImport(default, namespace, named, from) ==
    [default_binding |-> default, namespace_binding |-> namespace,
     named_imports |-> named, from |-> from]

EmptyDecl == DeclImport(FALSE, FALSE, NoNamedImports, FALSE)

ImportRunning == [status |-> "none", kind |-> "none"]
ImportOk == [status |-> "Ok", kind |-> "DeclImport"]
ImportErr(kind) == [status |-> "Err", kind |-> kind]
ImportPanic == [status |-> "Panic", kind |-> "unwrap_string"]

\* consume_optional_semicolon: a `;` is consumed; none is needed before `}`,
\* at the end of the stream, and before a token on a new line.
semicolon_optional(token, first_on_line) ==
    token \in {";", "}", "EOF"} \/ first_on_line

\* Faulty variant of takes_bindings: a namespace or named binding is also
\* looked for when no `,` follows the default binding.
takes_bindings_without_comma(default, comma) == TRUE

\* parse_import_declaration: `default_binding.is_none() || self.maybe_consume(punct!(","))?`
takes_bindings(default, comma) == ~default \/ comma

ImportIdle ==
    /\ import_pc = "idle"
    /\ import_current = NotRead
    /\ import_consumed = <<>>
    /\ import_decl = EmptyDecl
    /\ import_result = ImportRunning

ImportStart ==
    /\ import_pc = "import"
    /\ import_current = "import"
    /\ import_consumed = <<>>
    /\ import_decl = EmptyDecl
    /\ import_result = ImportRunning

\* consume: the current token is consumed and the reader loads the next one.
ImportConsume ==
    /\ import_consumed' = Append(import_consumed, import_current)
    /\ import_current' \in ImportAlphabet

\* A consume whose token ends the parse with the error `kind`.
ImportConsumeErr(kind) ==
    /\ import_consumed' =
          IF import_current = "EOF" THEN import_consumed
          ELSE Append(import_consumed, import_current)
    /\ import_current' = NotRead
    /\ import_pc' = "done"
    /\ import_result' = ImportErr(kind)
    /\ UNCHANGED import_decl

\* parse_import_declaration: consume_assert(`import`)
ConsumeImport ==
    /\ import_pc = "import"
    /\ ImportConsume
    /\ import_pc' = "head"
    /\ UNCHANGED <<import_decl, import_result>>
    /\ UNCHANGED notImportVars

\* parse_import_declaration: the side-effect import (string literal and
\* parse_module_specifier), else the optional default binding.
ParseImportHead ==
    /\ import_pc = "head"
    /\ IF import_current = "string"
       THEN /\ ImportConsume
            /\ import_decl' = [import_decl EXCEPT !.from = TRUE]
            /\ import_pc' = "semicolon"
       ELSE IF import_is_identifier(import_current)
            THEN /\ ImportConsume
                 /\ import_decl' = [import_decl EXCEPT !.default_binding = TRUE]
                 /\ import_pc' = "bindings"
       ELSE /\ UNCHANGED <<import_current, import_consumed, import_decl>>
            /\ import_pc' = "bindings"
    /\ UNCHANGED import_result
    /\ UNCHANGED notImportVars

\* parse_import_declaration: the `,` after a default binding and the match on
\* `*` and `{`.
ParseImportBindings ==
    /\ import_pc = "bindings"
    /\ LET comma == import_decl.default_binding /\ import_current = ","
       IN IF ~takes_bindings(import_decl.default_binding, comma)
          THEN /\ import_pc' = "from"
               /\ UNCHANGED <<import_current, import_consumed, import_decl, import_result>>
          ELSE IF comma
               THEN /\ ImportConsume
                    /\ import_pc' = "match"
                    /\ UNCHANGED <<import_decl, import_result>>
          ELSE /\ import_pc' = "match"
               /\ UNCHANGED <<import_current, import_consumed, import_decl, import_result>>
    /\ UNCHANGED notImportVars

\* parse_import_declaration: `match self.current()`; parse_namespace_import
\* and parse_named_imports: their first consume_assert.
MatchImportBindings ==
    /\ import_pc = "match"
    /\ IF import_current = "*"
       THEN /\ ImportConsume
            /\ import_pc' = "as"
            /\ UNCHANGED <<import_decl, import_result>>
       ELSE IF import_current = "{"
            THEN /\ ImportConsume
                 /\ import_pc' = "named"
                 /\ UNCHANGED <<import_decl, import_result>>
       ELSE ImportConsumeErr(IF import_current = "EOF" THEN "EndOfStream"
                             ELSE "UnexpectedToken")
    /\ UNCHANGED notImportVars

\* parse_namespace_import: consume_assert(`as`)
ParseNamespaceImportAs ==
    /\ import_pc = "as"
    /\ IF consume_assert_error(import_current, "as") = "none"
       THEN /\ ImportConsume
            /\ import_pc' = "namespace"
            /\ UNCHANGED <<import_decl, import_result>>
       ELSE ImportConsumeErr(consume_assert_error(import_current, "as"))
    /\ UNCHANGED notImportVars

\* parse_namespace_import: parse_identifier
ParseNamespaceImport ==
    /\ import_pc = "namespace"
    /\ IF parse_identifier_error(import_current) = "none"
       THEN /\ ImportConsume
            /\ import_decl' = [import_decl EXCEPT !.namespace_binding = TRUE]
            /\ import_pc' = "from"
            /\ UNCHANGED import_result
       ELSE ImportConsumeErr(parse_identifier_error(import_current))
    /\ UNCHANGED notImportVars

\* parse_named_imports: one turn of the loop up to the name of the specifier.
ParseNamedImports ==
    /\ import_pc = "named"
    /\ IF import_current = "}"
       THEN /\ ImportConsume
            /\ import_decl' =
                  [import_decl EXCEPT !.named_imports = NamedImports(@.len)]
            /\ import_pc' = "from"
            /\ UNCHANGED import_result
       ELSE IF parse_identifier_error(import_current) = "none"
            THEN /\ import_decl.named_imports.len < MaxSpecifiers
                 /\ ImportConsume
                 /\ import_pc' = "alias"
                 /\ UNCHANGED <<import_decl, import_result>>
       ELSE ImportConsumeErr(parse_identifier_error(import_current))
    /\ UNCHANGED notImportVars

\* parse_import_specifier: maybe_consume(`as`)
ParseImportSpecifierAs ==
    /\ import_pc = "alias"
    /\ IF import_current = "as"
       THEN /\ ImportConsume
            /\ import_pc' = "alias_ident"
       ELSE /\ import_pc' = "delimiter"
            /\ UNCHANGED <<import_current, import_consumed>>
    /\ UNCHANGED <<import_decl, import_result>>
    /\ UNCHANGED notImportVars

\* parse_import_specifier: parse_identifier of the alias
ParseImportSpecifierAlias ==
    /\ import_pc = "alias_ident"
    /\ IF parse_identifier_error(import_current) = "none"
       THEN /\ ImportConsume
            /\ import_pc' = "delimiter"
            /\ UNCHANGED <<import_decl, import_result>>
       ELSE ImportConsumeErr(parse_identifier_error(import_current))
    /\ UNCHANGED notImportVars

\* parse_named_imports: the push and consume_object_delimiter
ConsumeObjectDelimiter ==
    /\ import_pc = "delimiter"
    /\ IF import_current = ","
       THEN /\ ImportConsume
            /\ import_decl' = [import_decl EXCEPT !.named_imports.len = @ + 1]
            /\ import_pc' = "named"
            /\ UNCHANGED import_result
       ELSE IF import_current = "}"
            THEN /\ import_decl' = [import_decl EXCEPT !.named_imports.len = @ + 1]
                 /\ import_pc' = "named"
                 /\ UNCHANGED <<import_current, import_consumed, import_result>>
       ELSE ImportConsumeErr(IF import_current = "EOF" THEN "EndOfStream"
                             ELSE "ExpectedOther")
    /\ UNCHANGED notImportVars

\* parse_import_declaration: consume_assert(`from`)
ConsumeFrom ==
    /\ import_pc = "from"
    /\ IF consume_assert_error(import_current, "from") = "none"
       THEN /\ ImportConsume
            /\ import_pc' = "specifier"
            /\ UNCHANGED <<import_decl, import_result>>
       ELSE ImportConsumeErr(consume_assert_error(import_current, "from"))
    /\ UNCHANGED notImportVars

\* parse_module_specifier: parse_literal, unwrap_string
ParseModuleSpecifier ==
    /\ import_pc = "specifier"
    /\ IF import_current = "string"
       THEN /\ ImportConsume
            /\ import_decl' = [import_decl EXCEPT !.from = TRUE]
            /\ import_pc' = "semicolon"
            /\ UNCHANGED import_result
       ELSE IF import_current = "number"
            THEN /\ import_consumed' = Append(import_consumed, import_current)
                 /\ import_current' = NotRead
                 /\ import_pc' = "done"
                 /\ import_result' = ImportPanic
                 /\ UNCHANGED import_decl
       ELSE ImportConsumeErr(IF import_current = "EOF" THEN "EndOfStream"
                             ELSE "UnexpectedToken")
    /\ UNCHANGED notImportVars

\* parse_import_declaration: consume_optional_semicolon and the node
ConsumeOptionalSemicolon ==
    /\ import_pc = "semicolon"
    /\ import_pc' = "done"
    /\ \E first_on_line \in BOOLEAN :
          IF import_current = ";"
          THEN /\ import_consumed' = Append(import_consumed, import_current)
               /\ import_current' = NotRead
               /\ import_result' = ImportOk
          ELSE /\ UNCHANGED <<import_current, import_consumed>>
               /\ import_result' =
                     IF semicolon_optional(import_current, first_on_line)
                     THEN ImportOk ELSE ImportErr("UnexpectedToken")
    /\ UNCHANGED import_decl
    /\ UNCHANGED notImportVars

ImportNext ==
    \/ ConsumeImport
    \/ ParseImportHead
    \/ ParseImportBindings
    \/ MatchImportBindings
    \/ ParseNamespaceImportAs
    \/ ParseNamespaceImport
    \/ ParseNamedImports
    \/ ParseImportSpecifierAs
    \/ ParseImportSpecifierAlias
    \/ ConsumeObjectDelimiter
    \/ ConsumeFrom
    \/ ParseModuleSpecifier
    \/ ConsumeOptionalSemicolon

\* ------------------------------------------------------------------ binding patterns and formal parameters (binding.rs, function.rs)

ListKinds == {"array", "object", "parameters"}

\* The token that opens a list and the one that closes it.
list_open(kind) ==
    CASE kind = "array" -> "[" [] kind = "object" -> "{" [] kind = "parameters" -> "("

list_close(kind) ==
    CASE kind = "array" -> "]" [] kind = "object" -> "}" [] kind = "parameters" -> ")"

\* The tokens after the opening one, by value: an identifier (a binding
\* element without initializer), `,`, `...`, the closing token of the list and
\* a closing token of another list.
ListAlphabet(kind) ==
    {"ident", ",", "...", list_close(kind), IF kind = "object" THEN "]" ELSE "}"}

ListTokens(kind) ==
    {<<list_open(kind)>> \o t : t \in UNION {[1..n -> ListAlphabet(kind)] : n \in 0..MaxList}}

\* self.current(): "EOF" at the end of the stream
list_current(toks, p) == IF p > Len(toks) THEN "EOF" ELSE toks[p]

ListRunning == [status |-> "none", kind |-> "none", message |-> ""]
ListOk == [status |-> "Ok", kind |-> "none", message |-> ""]
ListErr(kind) == [status |-> "Err", kind |-> kind, message |-> ""]
RestNotLast ==
    [status |-> "Err", kind |-> "SyntaxError", message |-> "Rest element must be last element"]

\* The error of a consume that met `token` where it is not accepted.
unexpected(token, kind) == ListErr(IF token = "EOF" THEN "EndOfStream" ELSE kind)

NoRest == [some |-> FALSE, at |-> 0]
SomeRest(p) == [some |-> TRUE, at |-> p]

\* parse_array_binding_pattern: parse_rest_binding_ident(BraceClose);
\* parse_object_binding_pattern: parse_rest_binding_ident(BracketClose)
expected_end(kind) == IF kind = "array" THEN "}" ELSE "]"

\* parse_rest_binding_ident, entered with the reader at p: the identifier and
\* the end token.
parse_rest_binding_ident(toks, p, end) ==
    IF list_current(toks, p) # "ident"
    THEN [result |-> unexpected(list_current(toks, p), "ExpectedIdent"), pos |-> p + 1]
    ELSE IF list_current(toks, p + 1) = "EOF"
         THEN [result |-> ListErr("EndOfStream"), pos |-> p + 1]
    ELSE IF list_current(toks, p + 1) = end
         THEN [result |-> ListOk, pos |-> p + 2]
    ELSE [result |-> RestNotLast, pos |-> p + 2]

\* consume_list_delimiter
consume_list_delimiter(toks, p, list_end) ==
    IF list_current(toks, p) = ","
    THEN [result |-> ListOk, pos |-> p + 1]
    ELSE IF list_current(toks, p) = list_end
         THEN [result |-> ListOk, pos |-> p]
    ELSE [result |-> unexpected(list_current(toks, p), "ExpectedOther"), pos |-> p + 1]

\* What the list holds: the slots pushed and the assignments of `rest`, in the
\* order they were made, each with the index of its first token.
ListEntry(what, p) == [what |-> what, at |-> p]

ListIdle ==
    /\ list_kind = "none"
    /\ list_tokens = <<>>
    /\ list_pos = 1
    /\ list_pc = "idle"
    /\ list_elements = <<>>
    /\ list_rest = NoRest
    /\ list_entries = <<>>
    /\ list_result = ListRunning

ListStart ==
    /\ list_kind \in ListKinds
    /\ list_tokens \in ListTokens(list_kind)
    /\ list_pos = 1
    /\ list_pc = "open"
    /\ list_elements = <<>>
    /\ list_rest = NoRest
    /\ list_entries = <<>>
    /\ list_result = ListRunning

\* The opening token is consumed.
ConsumeOpen ==
    /\ list_pc = "open"
    /\ list_pos' = 2
    /\ list_pc' = "loop"
    /\ UNCHANGED <<list_kind, list_tokens, list_elements, list_rest, list_entries,
                   list_result>>
    /\ UNCHANGED notListVars

ListStop(returned_result, p) ==
    /\ list_pc' = "done"
    /\ list_result' = returned_result
    /\ list_pos' = p

ListGoOn(p) ==
    /\ list_pc' = "loop"
    /\ list_pos' = p
    /\ UNCHANGED list_result

\* parse_array_binding_pattern: one turn of the loop.
ParseArrayBindingPattern ==
    /\ list_kind = "array"
    /\ list_pc = "loop"
    /\ LET current == list_current(list_tokens, list_pos)
           ident == parse_rest_binding_ident(list_tokens, list_pos + 1,
                                             expected_end(list_kind))
           delimiter == consume_list_delimiter(list_tokens, list_pos + 1, "]")
       IN CASE current = "]" ->
                  /\ ListStop(ListOk, list_pos + 1)
                  /\ UNCHANGED <<list_elements, list_rest, list_entries>>
            [] current = "," ->
                  /\ ListGoOn(list_pos + 1)
                  /\ list_elements' = Append(list_elements, "None")
                  /\ list_entries' = Append(list_entries, ListEntry("elision", list_pos))
                  /\ UNCHANGED list_rest
            [] current = "..." ->
                  /\ ListStop(ident.result, ident.pos)
                  /\ list_rest' = IF ident.result = ListOk THEN SomeRest(list_pos)
                                  ELSE list_rest
                  /\ list_entries' = Append(list_entries, ListEntry("rest", list_pos))
                  /\ UNCHANGED list_elements
            [] current = "ident" ->
                  /\ IF delimiter.result = ListOk
                     THEN ListGoOn(delimiter.pos)
                     ELSE ListStop(delimiter.result, delimiter.pos)
                  /\ list_elements' = Append(list_elements, "Some")
                  /\ list_entries' = Append(list_entries, ListEntry("element", list_pos))
                  /\ UNCHANGED list_rest
            [] OTHER ->
                  /\ ListStop(unexpected(current, "UnexpectedToken"), list_pos + 1)
                  /\ UNCHANGED <<list_elements, list_rest, list_entries>>
    /\ UNCHANGED <<list_kind, list_tokens>>
    /\ UNCHANGED notListVars

\* parse_object_binding_pattern: after the loop, the test for `;`.
object_pattern_end(toks, p) ==
    IF list_current(toks, p) = "EOF"
    THEN [result |-> ListErr("EndOfStream"), pos |-> p]
    ELSE [result |-> ListOk, pos |-> IF list_current(toks, p) = ";" THEN p + 1 ELSE p]

\* parse_object_binding_pattern: one turn of the loop.
ParseObjectBindingPattern ==
    /\ list_kind = "object"
    /\ list_pc = "loop"
    /\ LET current == list_current(list_tokens, list_pos)
           ident == parse_rest_binding_ident(list_tokens, list_pos + 1,
                                             expected_end(list_kind))
           delimiter == consume_list_delimiter(list_tokens, list_pos + 1, "}")
       IN CASE current = "}" ->
                  /\ ListStop(object_pattern_end(list_tokens, list_pos + 1).result,
                              object_pattern_end(list_tokens, list_pos + 1).pos)
                  /\ UNCHANGED <<list_elements, list_rest, list_entries>>
            [] current = "..." ->
                  /\ IF ident.result = ListOk
                     THEN ListStop(object_pattern_end(list_tokens, ident.pos).result,
                                   object_pattern_end(list_tokens, ident.pos).pos)
                     ELSE ListStop(ident.result, ident.pos)
                  /\ list_rest' = IF ident.result = ListOk THEN SomeRest(list_pos)
                                  ELSE list_rest
                  /\ list_entries' = Append(list_entries, ListEntry("rest", list_pos))
                  /\ UNCHANGED list_elements
            [] current = "ident" ->
                  /\ IF delimiter.result = ListOk
                     THEN ListGoOn(delimiter.pos)
                     ELSE ListStop(delimiter.result, delimiter.pos)
                  /\ list_elements' = Append(list_elements, "Some")
                  /\ list_entries' = Append(list_entries, ListEntry("element", list_pos))
                  /\ UNCHANGED list_rest
            [] OTHER ->
                  /\ ListStop(unexpected(current, "UnexpectedToken"), list_pos + 1)
                  /\ UNCHANGED <<list_elements, list_rest, list_entries>>
    /\ UNCHANGED <<list_kind, list_tokens>>
    /\ UNCHANGED notListVars

\* parse_formal_parameters: one turn of the loop.
ParseFormalParametersLoop ==
    /\ list_kind = "parameters"
    /\ list_pc = "loop"
    /\ LET current == list_current(list_tokens, list_pos)
           delimiter == consume_list_delimiter(list_tokens, list_pos + 1, ")")
           pattern == list_current(list_tokens, list_pos + 1)
           rest_delimiter == consume_list_delimiter(list_tokens, list_pos + 2, ")")
       IN CASE current = "EOF" ->
                  /\ ListStop(ListErr("EndOfStream"), list_pos)
                  /\ UNCHANGED <<list_elements, list_rest, list_entries>>
            [] current = ")" ->
                  /\ ListStop(ListOk, list_pos + 1)
                  /\ UNCHANGED <<list_elements, list_rest, list_entries>>
            [] current = "..." ->
                  IF pattern # "ident"
                  THEN /\ ListStop(unexpected(pattern, "UnexpectedToken"), list_pos + 2)
                       /\ UNCHANGED <<list_elements, list_rest, list_entries>>
                  ELSE /\ IF rest_delimiter.result = ListOk
                          THEN ListGoOn(rest_delimiter.pos)
                          ELSE ListStop(rest_delimiter.result, rest_delimiter.pos)
                       /\ list_rest' = SomeRest(list_pos)
                       /\ list_entries' = Append(list_entries, ListEntry("rest", list_pos))
                       /\ UNCHANGED list_elements
            [] current = "ident" ->
                  /\ IF delimiter.result = ListOk
                     THEN ListGoOn(delimiter.pos)
                     ELSE ListStop(delimiter.result, delimiter.pos)
                  /\ list_elements' = Append(list_elements, "Some")
                  /\ list_entries' = Append(list_entries, ListEntry("element", list_pos))
                  /\ UNCHANGED list_rest
            [] OTHER ->
                  /\ ListStop(unexpected(current, "UnexpectedToken"), list_pos + 1)
                  /\ UNCHANGED <<list_elements, list_rest, list_entries>>
    /\ UNCHANGED <<list_kind, list_tokens>>
    /\ UNCHANGED notListVars

ListNext ==
    \/ ConsumeOpen
    \/ ParseArrayBindingPattern
    \/ ParseObjectBindingPattern
    \/ ParseFormalParametersLoop

\* ------------------------------------------------------------------ specifications

CoverInit ==
    /\ CoverStart
    /\ CtxIdle /\ ProgIdle /\ KwIdle /\ FnIdle /\ EeIdle
    /\ ForIdle /\ ReaderIdle /\ LexIdle /\ ImportIdle /\ ListIdle

SpecCover == CoverInit /\ [][CoverNext]_vars

CtxInit ==
    /\ CtxStart
    /\ CoverIdle /\ ProgIdle /\ KwIdle /\ FnIdle /\ EeIdle
    /\ ForIdle /\ ReaderIdle /\ LexIdle /\ ImportIdle /\ ListIdle

SpecContext == CtxInit /\ [][CtxNext]_vars

ProgInit ==
    /\ ProgStart
    /\ CoverIdle /\ KwIdle /\ FnIdle /\ EeIdle /\ ForIdle
    /\ ReaderIdle /\ LexIdle /\ ImportIdle /\ ListIdle

SpecProgram == ProgInit /\ [][ProgNext]_vars

KwInit ==
    /\ KwStart
    /\ CoverIdle /\ CtxIdle /\ ProgIdle /\ FnIdle /\ EeIdle
    /\ ForIdle /\ ReaderIdle /\ LexIdle /\ ImportIdle /\ ListIdle

SpecKeyword == KwInit /\ [][KwNext]_vars

FnInit ==
    /\ FnStart
    /\ CoverIdle /\ CtxIdle /\ ProgIdle /\ KwIdle /\ EeIdle
    /\ ForIdle /\ ReaderIdle /\ LexIdle /\ ImportIdle /\ ListIdle

SpecFunction == FnInit /\ [][FnNext]_vars

EeInit ==
    /\ EeStart
    /\ CoverIdle /\ CtxIdle /\ ProgIdle /\ KwIdle /\ FnIdle
    /\ ForIdle /\ ReaderIdle /\ LexIdle /\ ImportIdle /\ ListIdle

SpecEarlyError == EeInit /\ [][EeNext]_vars

ForInit ==
    /\ ForStart
    /\ CoverIdle /\ CtxIdle /\ ProgIdle /\ KwIdle /\ FnIdle
    /\ EeIdle /\ ReaderIdle /\ LexIdle /\ ImportIdle /\ ListIdle

SpecFor == ForInit /\ [][ForNext]_vars

ReaderInit ==
    /\ ReaderStart
    /\ CoverIdle /\ CtxIdle /\ ProgIdle /\ KwIdle /\ FnIdle
    /\ EeIdle /\ ForIdle /\ LexIdle /\ ImportIdle /\ ListIdle

SpecReader == ReaderInit /\ [][ReaderNext]_vars

LexInit ==
    /\ LexStart
    /\ CoverIdle /\ CtxIdle /\ ProgIdle /\ KwIdle /\ FnIdle
    /\ EeIdle /\ ForIdle /\ ReaderIdle /\ ImportIdle /\ ListIdle

SpecLexer == LexInit /\ [][LexNext]_vars

ImportInit ==
    /\ ImportStart
    /\ CoverIdle /\ CtxIdle /\ ProgIdle /\ KwIdle /\ FnIdle
    /\ EeIdle /\ ForIdle /\ ReaderIdle /\ LexIdle /\ ListIdle

SpecImport == ImportInit /\ [][ImportNext]_vars

ListInit ==
    /\ ListStart
    /\ CoverIdle /\ CtxIdle /\ ProgIdle /\ KwIdle /\ FnIdle
    /\ EeIdle /\ ForIdle /\ ReaderIdle /\ LexIdle /\ ImportIdle

SpecList == ListInit /\ [][ListNext]_vars

\* ------------------------------------------------------------ cover: claims

\* What the grammar calls the matching `)`, stated without the scan: a token
\* counts when it is outside every template.
Plain(toks, k, v) == toks[k].value = v /\ TemplatesOpenBefore(toks, k) = 0

Balance(toks, i, j) ==
    Cardinality({k \in i..j : Plain(toks, k, "(")})
        - Cardinality({k \in i..j : Plain(toks, k, ")")})

\* Index of the first `(` at or after index e (0: none).
FirstOpen(toks, e) ==
    LET S == {k \in e..Len(toks) : Plain(toks, k, "(")}
    IN IF S = {} THEN 0 ELSE CHOOSE k \in S : \A m \in S : k <= m

\* Index of the `)` that closes the `(` at index i (0: none).
MatchingClose(toks, i) ==
    LET S == {j \in (i + 1)..Len(toks) : Plain(toks, j, ")") /\ Balance(toks, i, j) = 0}
    IN IF i = 0 \/ S = {} THEN 0 ELSE CHOOSE j \in S : \A m \in S : j <= m

\* The token after the `)` that closes the first `(` of the cover production.
CloseOfEntry == MatchingClose(tokens, FirstOpen(tokens, entry))

TokenAfterClose ==
    IF CloseOfEntry = 0 \/ CloseOfEntry + 1 > Len(tokens)
    THEN NoToken ELSE tokens[CloseOfEntry + 1]

ArrowFollows == TokenAfterClose.value = "=>" /\ TokenAfterClose.first_on_line = FALSE

\* C1: entered on `(`, the parenthesized cover parses an arrow function if and
\* only if the token right after the matching `)` is `=>` with first_on_line =
\* false; in every other case with a matching `)` (another token, no token, `=>`
\* first on its line) it parses a parenthesized expression.
C1_ParenthesizedCoverDecision ==
    cover = "parenthesized" =>
        /\ production # "none" =>
              /\ CloseOfEntry # 0
              /\ production = (IF ArrowFollows THEN "ArrowFunction"
                               ELSE "ParenthesizedExpression")
        /\ (pc = "done" /\ CloseOfEntry # 0) => (result = Ok /\ production # "none")

\* C1 witness: `=>` follows the `)` but starts a new line, and the parenthesized
\* expression was parsed.
C1_Witness ==
    /\ cover = "parenthesized"
    /\ pc = "done"
    /\ production = "ParenthesizedExpression"
    /\ after_token.value = "=>"
    /\ after_token.first_on_line

\* C2: entered on `async (`, the async cover parses an async arrow function if
\* and only if the token right after the matching `)` is `=>` that is not first
\* on its line, and a call expression in every other case.
C2_AsyncCoverDecision ==
    cover = "async" =>
        /\ production # "none" =>
              /\ CloseOfEntry # 0
              /\ production = (IF ArrowFollows THEN "AsyncArrowFunction"
                               ELSE "CallExpression")
        /\ (pc = "done" /\ CloseOfEntry # 0) => (result = Ok /\ production # "none")

\* C3: the forward scan leaves the reader where it started: once
\* token_after_parenthesis has returned, the current token is the token (value
\* and span) that was current on entry, and the chosen production starts by
\* consuming exactly that token.
C3_ScanRestoresReader ==
    /\ pc \in {"decide", "parse"} =>
          /\ pos = entry
          /\ reader_current(tokens, pos) = start
          /\ start = tokens[entry]
    /\ (pc = "done" /\ result = Ok) =>
          /\ begin_token = tokens[entry]
          /\ pos = entry + 1

\* C3 witness: the scan ran over a whole parenthesis group and the token after
\* it, in the middle of a stream, and has returned.
C3_Witness ==
    /\ pc = "decide"
    /\ entry > 1
    /\ after_token # NoToken
    /\ after_token.span.start > start.span.start + 4

\* C4: when the first `(` has a matching `)`, token_after_parenthesis returns
\* the token right after that `)`: nested pairs are skipped by depth counting,
\* tokens before the first `(` are skipped, and the result is None when the
\* matching `)` is the last token.
C4_TokenAfterMatchingParenthesis ==
    /\ pc \in {"rewind", "decide", "parse"} =>
          /\ CloseOfEntry # 0
          /\ after_token = TokenAfterClose
    /\ (pc = "done" /\ CloseOfEntry # 0) =>
          /\ result = Ok
          /\ after_token = TokenAfterClose

\* C4 witness: `async ( ( ) ) =>`: a token before the first `(`, a nested pair,
\* and a token after the matching `)`.
C4_Witness ==
    /\ pc = "decide"
    /\ cover = "async"
    /\ \E k \in (entry + 2)..Len(tokens) :
          /\ tokens[k].value = "("
          /\ k < CloseOfEntry
    /\ after_token # NoToken
    /\ after_token = tokens[CloseOfEntry + 1]

HasUseStrictDirective ==
    \E k \in 1..Len(source.items) :
        /\ source.items[k] = Item("String", "StringLiteral", "use strict")
        /\ \A j \in 1..k : source.items[j].first = "String"

\* C6: parse ends with Ok or Err for every input: no path panics (an unwrap
\* that fails, todo!, unimplemented!).
C6_ParseNeverPanics == outcome # "Panic"

\* C9: the body statements of a Program are parsed with Strict = true if and
\* only if the directive prologue holds a directive of value exactly
\* "use strict"; Await, Yield, In and Default are those the parser had before
\* the prologue.
C9_BodyStrictIffUseStrict ==
    \A i \in 1..Len(body) :
        /\ body[i].context.is_strict = HasUseStrictDirective
        /\ \A f \in ContextFields \ {"is_strict"} :
              body[i].context[f] = entry_context[f]

\* C9 witness: "use asm"; "use strict"; and a body statement parsed as strict.
C9_Witness ==
    /\ outcome = "Ok"
    /\ directives = <<"use asm", "use strict">>
    /\ Len(body) = 1
    /\ body[1].context.is_strict

\* C10: with source type Module the body is parsed with Strict = true, with or
\* without a "use strict" directive.
C10_ModuleBodyIsStrict ==
    source_type = "Module" => \A i \in 1..Len(body) : body[i].context.is_strict

\* ------------------------------------------------------------ Context: claims

FieldOf(m) ==
    CASE m = "with_await" -> "is_await"
      [] m = "with_yield" -> "is_yield"
      [] m = "with_in" -> "is_in"
      [] m = "with_strict" -> "is_strict"
      [] m = "with_default" -> "is_default"

\* C7: a Context is never changed in place: the context a modifier returns has
\* the named field equal to the argument and the other four fields equal to the
\* receiver's, and the context of every enclosing parser stays what it was, while
\* the sub-parse runs and after it returned Ok or Err.
C7_ContextNeverMutated ==
    /\ [](\A i \in 2..Len(parsers) :
             /\ parsers[i][FieldOf(calls[i].modifier)] = calls[i].arg
             /\ \A f \in ContextFields \ {FieldOf(calls[i].modifier)} :
                   parsers[i][f] = parsers[i - 1][f])
    /\ [][\A i \in 1..Len(parsers) :
             i <= Len(parsers') => parsers'[i] = parsers[i]]_vars

\* C7 witness: a sub-parse called by a parser whose context has In = true has
\* returned Err.
C7_Witness ==
    /\ returned = "Err"
    /\ Len(parsers) = 2
    /\ calls[2] = [modifier |-> "with_in", arg |-> TRUE]
    /\ parsers[2] = [Context_default EXCEPT !.is_in = TRUE]

\* ------------------------------------------------------------ Keyword: claims

AlwaysIdentifier == {"as", "async", "from", "get", "of", "set", "target"}

StrictReserved ==
    {"implements", "interface", "let", "package", "private", "protected",
     "public", "static"}

\* The bits of a context, one by one.
HasBit(ctx, bit) == (ctx \div bit) % 2 = 1

AllowedAsIdentifier(name, ctx) ==
    \/ name \in AlwaysIdentifier
    \/ name = "await" /\ ~HasBit(ctx, AWAIT)
    \/ name = "yield" /\ ~HasBit(ctx, YIELD) /\ ~HasBit(ctx, STRICT)
    \/ name \in StrictReserved /\ ~HasBit(ctx, STRICT)

\* C8: is_allows_as_identifier is true for as, async, from, get, of, set,
\* target; for await iff AWAIT is not set; for yield iff neither YIELD nor
\* STRICT is set; for implements, interface, let, package, private, protected,
\* public, static iff STRICT is not set; false for every other keyword.
\* into_identifier_string gives Ok(lower-case name) exactly then, and
\* Err(ForbiddenIdentifier(k)) otherwise.
C8_KeywordAsIdentifier ==
    identifier # NotCalled =>
        identifier =
            IF AllowedAsIdentifier(variant_string[keyword], keyword_context)
            THEN [status |-> "Ok", value |-> variant_string[keyword]]
            ELSE [status |-> "Err", value |-> "ForbiddenIdentifier(" \o keyword \o ")"]

\* C8 witness: yield in a strict context that is not a generator is refused.
C8_Witness ==
    /\ keyword = "Yield"
    /\ keyword_context = STRICT
    /\ identifier = [status |-> "Err", value |-> "ForbiddenIdentifier(Yield)"]

\* ------------------------------------------------------------ functions: claims

\* C11: for every function form the parameters and the body are parsed under
\* Await = (the function is async) and Yield = (the function is a generator),
\* whatever the enclosing context holds.
C11_FunctionAwaitYield ==
    /\ \A k \in 1..Len(fn_parameters) :
          /\ fn_parameters[k].is_await = function.asynchronous
          /\ fn_parameters[k].is_yield = function.generator
    /\ \A k \in 1..Len(fn_parsed) :
          /\ fn_parsed[k].context.is_await = function.asynchronous
          /\ fn_parsed[k].context.is_yield = function.generator

\* C12: when the body begins with the directive "use strict", every statement
\* after the directive prologue is parsed with Strict = true.
C12_UseStrictBodyIsStrict ==
    \A k \in 1..Len(fn_parsed) :
        (/\ fn_parsed[k].list = "statements"
         /\ fn_directives # <<>>
         /\ fn_directives[1] = "use strict")
            => fn_parsed[k].context.is_strict

\* The statements of the body parsed so far.
FnParsedItems == SubSeq(fn_items, 1, Len(fn_parsed))

\* The length of the maximal leading run of string-literal expression statements.
RECURSIVE LeadingStrings(_)
LeadingStrings(items) ==
    IF items = <<>> \/ Head(items).node # "StringLiteral" THEN 0
    ELSE 1 + LeadingStrings(Tail(items))

\* C13: the directives are exactly the maximal leading run of string-literal
\* expression statements, in source order; every later statement is in the
\* statement list; no statement is in both lists and none is dropped.
C13_DirectivesAreLeadingStrings ==
    LET n == LeadingStrings(FnParsedItems)
    IN /\ Len(fn_parsed) = IF fpc = "idle" THEN 0 ELSE fn_idx - 1
       /\ fn_directives = [k \in 1..n |-> fn_items[k].value]
       /\ fn_statements = [k \in 1..(Len(fn_parsed) - n) |-> fn_items[n + k]]
       /\ \A k \in 1..Len(fn_parsed) :
             /\ fn_parsed[k].index = k
             /\ fn_parsed[k].list = IF k <= n THEN "directives" ELSE "statements"

\* A body is parsed to its end where a string literal follows a statement that
\* is not one, after a directive.
C13_Witness ==
    /\ fpc = "done"
    /\ fn_result = "Ok"
    /\ Len(fn_items) = 3
    /\ fn_items[1].node = "StringLiteral"
    /\ fn_items[2].node # "StringLiteral"
    /\ fn_items[3].node = "StringLiteral"
    /\ Len(fn_directives) = 1
    /\ Len(fn_statements) = 2

\* ------------------------------------------------------------ early errors: claims

Validated(v) == validation = v /\ ee_result # NotValidated

\* IdentRef or Member.
SimpleTarget(expr) == expr.kind \in {"IdentRef", "Member"}

\* The elements (array) or properties (object) of a literal.
Parts(lit) == IF lit.kind = "Array" THEN lit.elements ELSE lit.props

\* The positions of a literal that make it no assignment pattern: a spread
\* that is not last, a method.
NonLastSpreads(lit) ==
    {k \in 1..(Len(Parts(lit)) - 1) : Parts(lit)[k].kind = "Spread"}

Methods(lit) == {k \in 1..Len(Parts(lit)) : Parts(lit)[k].kind = "Method"}

ValidPattern(lit) == NonLastSpreads(lit) = {} /\ Methods(lit) = {}

\* The left operands validate_left_side_expr may accept.
AcceptableLeftSide(expr, op) ==
    \/ SimpleTarget(expr)
    \/ op = "Assign" /\ expr.kind \in {"Array", "Object"} /\ ValidPattern(expr)

InvalidLeftSide(expr) == syntax_error("Invalid left-hand side assignment", expr.span)

\* C14, as stated: a left operand is accepted only when it is acceptable, and
\* every other operand is rejected with "Invalid left-hand side assignment" and
\* the operand's span.
C14_LeftSideAcceptedOrInvalid ==
    Validated("validate_left_side_expr") =>
        /\ ee_result.status = "Ok" => AcceptableLeftSide(argument, operator)
        /\ ~AcceptableLeftSide(argument, operator) => ee_result = InvalidLeftSide(argument)

\* C14, amended: a left operand is accepted only when it is acceptable; an array
\* or object literal under `=` that is no pattern is rejected with the error of
\* the pattern check, every other operand that is not acceptable with "Invalid
\* left-hand side assignment" and the operand's span.
C14_LeftSideAcceptedOrRejected ==
    Validated("validate_left_side_expr") =>
        /\ ee_result.status = "Ok" => AcceptableLeftSide(argument, operator)
        /\ ~AcceptableLeftSide(argument, operator) =>
              IF operator = "Assign" /\ argument.kind \in {"Array", "Object"}
              THEN /\ ee_result.status = "Err"
                   /\ ee_result.kind = "SyntaxError"
                   /\ ee_result.message \in {"Rest element must be last element",
                                             "Invalid destructuring assignment target"}
              ELSE ee_result = InvalidLeftSide(argument)

\* An array literal is rejected as the left operand of a compound assignment.
C14_Witness ==
    /\ Validated("validate_left_side_expr")
    /\ operator = "Add"
    /\ argument.kind = "Array"
    /\ ValidPattern(argument)
    /\ ee_result = InvalidLeftSide(argument)

\* C15: an array or object literal on the left of `=` is rejected if and only
\* if a spread is not last or a property is a method; the error is "Rest element
\* must be last element" with the span of such a spread, or "Invalid
\* destructuring assignment target" with the span of a method.
C15_LiteralCoversPattern ==
    (/\ Validated("validate_left_side_expr")
     /\ operator = "Assign"
     /\ argument.kind \in {"Array", "Object"}) =>
        /\ ee_result.status = "Err" <=> ~ValidPattern(argument)
        /\ ee_result.status = "Ok" <=> ValidPattern(argument)
        /\ ee_result.status = "Err" =>
              /\ ee_result.kind = "SyntaxError"
              /\ \/ /\ ee_result.message = "Rest element must be last element"
                    /\ \E k \in NonLastSpreads(argument) :
                          ee_result.span = Parts(argument)[k].span
                 \/ /\ ee_result.message = "Invalid destructuring assignment target"
                    /\ \E k \in Methods(argument) :
                          ee_result.span = Parts(argument)[k].span

\* An array literal with two spreads, one of them last, is rejected for the
\* other one.
C15_Witness ==
    /\ Validated("validate_left_side_expr")
    /\ operator = "Assign"
    /\ argument.kind = "Array"
    /\ Len(argument.elements) = 3
    /\ argument.elements[2].kind = "Spread"
    /\ argument.elements[3].kind = "Spread"
    /\ ee_result = syntax_error("Rest element must be last element",
                                argument.elements[2].span)

\* C16: in a Strict context an identifier reference `arguments` or `eval` is
\* rejected with a SyntaxError as the left operand of any assignment operator
\* and as the operand of an update operator; in a non-strict context it is
\* accepted.
C16_StrictEvalArguments ==
    (/\ \/ Validated("validate_left_side_expr")
        \/ Validated("validate_update_expression_argument")
     /\ argument.kind = "IdentRef"
     /\ argument.name \in {"arguments", "eval"}) =>
        IF ee_context.is_strict
        THEN ee_result.status = "Err" /\ ee_result.kind = "SyntaxError"
        ELSE ee_result = EeOk

\* `eval` is rejected as the operand of an update operator in a Strict context.
C16_Witness ==
    /\ Validated("validate_update_expression_argument")
    /\ argument.kind = "IdentRef"
    /\ argument.name = "eval"
    /\ ee_context.is_strict
    /\ ee_result.status = "Err"

\* The expression inside any number of parentheses.
RECURSIVE Unparenthesized(_)
Unparenthesized(expr) ==
    IF expr.kind = "Parenthesized" THEN Unparenthesized(expr.expression) ELSE expr

\* C17: validate_delete_argument returns an error if and only if the context is
\* Strict and the argument without its parentheses is an identifier reference;
\* the error is SyntaxError "Delete of an unqualified identifier in strict mode"
\* with the span of the identifier.
C17_DeleteUnqualifiedIdentifier ==
    Validated("validate_delete_argument") =>
        IF ee_context.is_strict /\ Unparenthesized(argument).kind = "IdentRef"
        THEN ee_result =
                syntax_error("Delete of an unqualified identifier in strict mode",
                             Unparenthesized(argument).span)
        ELSE ee_result = EeOk

\* An identifier under two parentheses is rejected with the identifier's span.
C17_Witness ==
    /\ Validated("validate_delete_argument")
    /\ argument.kind = "Parenthesized"
    /\ argument.expression.kind = "Parenthesized"
    /\ argument.expression.expression.kind = "IdentRef"
    /\ ee_result.status = "Err"
    /\ ee_result.span = argument.expression.expression.span
    /\ ee_result.span # argument.span

\* All the names a parameter list binds, with their positions.
BoundNames(params) == get_bound_names(params)

Occurrences(names, name) == Cardinality({k \in 1..Len(names) : names[k] = name})

PairwiseDistinct(names) == \A k \in 1..Len(names) : Occurrences(names, names[k]) = 1

\* C18: validate_unique_formal_parameters returns Ok if and only if the bound
\* names of the bindings and of the rest parameter are pairwise distinct;
\* otherwise a SyntaxError that names a name occurring at least twice, with the
\* span of the whole parameter list.
C18_UniqueFormalParameters ==
    Validated("validate_unique_formal_parameters") =>
        IF PairwiseDistinct(BoundNames(argument))
        THEN ee_result = EeOk
        ELSE /\ ee_result.status = "Err"
             /\ ee_result.kind = "SyntaxError"
             /\ ee_result.span = argument.span
             /\ \E k \in 1..Len(BoundNames(argument)) :
                   /\ Occurrences(BoundNames(argument), BoundNames(argument)[k]) >= 2
                   /\ ee_result.message =
                         "Found duplicate parameter '" \o BoundNames(argument)[k]
                             \o "', duplicates not allowed here"

\* A name bound by the first binding and again by the rest parameter, another
\* name between them.
C18_Witness ==
    /\ Validated("validate_unique_formal_parameters")
    /\ Len(argument.bindings) = 2
    /\ argument.bindings[1] = <<"b">>
    /\ argument.bindings[2] = <<"a">>
    /\ argument.rest = <<"b">>
    /\ ee_result.status = "Err"

\* ------------------------------------------------------------ for statements: claims

ForDone == for_pc = "done"

\* A `for await` head that is a well-formed C-style or for-in head, or that is
\* parsed with Await = false.
ForAwaitNotAllowed ==
    /\ for_head.await
    /\ \/ ~for_context.is_await
       \/ for_head.shape = "for" /\ for_head.init_ok
       \/ for_head.shape = "in" /\ for_head.left_ok

\* C19: a `for await (` head is accepted only with Await = true and for-of, and
\* then the StmtForOf has asynchronous = true; a C-style or for-in `for await`
\* head and any `for await` parsed with Await = false are rejected with a
\* SyntaxError; a for-of without `await` has asynchronous = false.
C19_ForAwaitOnlyOf ==
    ForDone =>
        /\ (for_head.await /\ for_result.status = "Ok") =>
              /\ for_context.is_await
              /\ for_head.shape = "of"
              /\ for_result = ForOk("StmtForOf", TRUE)
        /\ ForAwaitNotAllowed => for_result = ForErr("SyntaxError")
        /\ (~for_head.await /\ for_result.status = "Ok" /\ for_head.shape = "of") =>
              for_result = ForOk("StmtForOf", FALSE)

\* C20: the init of a `for` header is parsed with In = false, its test and
\* update and the right-hand expression of for-in/for-of with In = true; all
\* other context fields are those of the enclosing context.
C20_ForHeaderIn ==
    \A k \in 1..Len(for_parsed) :
        LET p == for_parsed[k]
        IN /\ p.part = "init" => p.context = [for_context EXCEPT !.is_in = FALSE]
           /\ p.part \in {"test", "update", "right"} =>
                 p.context = [for_context EXCEPT !.is_in = TRUE]

\* A C-style for met with In = true, and a for-of met with In = false, are
\* parsed to their end: each part was parsed under a context that differs from
\* the enclosing one.
C20_Witness ==
    /\ ForDone
    /\ for_result.status = "Ok"
    /\ \/ /\ for_context.is_in
          /\ for_context.is_strict
          /\ \E k \in 1..Len(for_parsed) : for_parsed[k].part = "init"
          /\ \E k \in 1..Len(for_parsed) : for_parsed[k].part = "test"
          /\ \E k \in 1..Len(for_parsed) : for_parsed[k].part = "update"
       \/ /\ ~for_context.is_in
          /\ \E k \in 1..Len(for_parsed) : for_parsed[k].part = "right"

\* The index of the first token after the `(` of a `for` header.
FirstAfterParen == IF for_tokens[2].value = "(" THEN 3 ELSE 4

\* The step parses a part of a C-style `for` that its sub-parser rejects.
CommittedPartFails ==
    \/ for_pc = "test" /\ (for_head.test = "Err" \/ for_head.update = "Err")
    \/ for_pc = "body" /\ for_head.body = "Err"

\* C21: the ForInit parse is speculative until the first `;`. If the ForInit
\* fails to parse or no `;` follows it, try_parse_for gives up without an error,
\* the reader is rewound to the first token after `(` and the for-in/for-of
\* head is parsed from exactly that token. Once the first `;` was consumed the
\* reader is never rewound and never moves back, no for-in/for-of head is
\* parsed, and every later error is returned.
C21_ForInitSpeculativeUntilSemicolon ==
    [][/\ (for_pc = "init" /\ (~for_head.init_ok \/ for_head.shape # "for")) =>
             /\ for_pc' = "rewind"
             /\ ~first_semicolon'
             /\ for_result' = ForRunning
       /\ for_pc = "rewind" =>
             /\ rewinds' = rewinds + 1
             /\ start_token = for_tokens[FirstAfterParen]
             /\ for_parsed'[Len(for_parsed')].part = "left"
             /\ for_spans'[Len(for_spans')].start = for_tokens[FirstAfterParen].span.start
       /\ (for_pc = "init" /\ first_semicolon' /\ asynchronous) =>
             for_result' = ForErr("SyntaxError")
       /\ first_semicolon =>
             /\ rewinds = 0
             /\ rewinds' = 0
             /\ for_reader' >= for_reader
             /\ for_pc' \in {"test", "body", "done"}
             /\ \A k \in 1..Len(for_parsed') : for_parsed'[k].part # "left"
             /\ CommittedPartFails =>
                   for_pc' = "done" /\ for_result' = ForErr("SubParser")
      ]_vars

\* A for-of whose declaration the ForInit parse gave up on after reading a
\* part of it: the reader was rewound once and the statement was built.
C21_Witness ==
    /\ ForDone
    /\ rewinds = 1
    /\ for_head.init = "declaration"
    /\ ~for_head.init_ok
    /\ for_spans[1].end > for_spans[1].start
    /\ for_result = ForOk("StmtForOf", FALSE)

\* The parts of for_parsed that are children of the node built.
ForNodeParts(kind) ==
    CASE kind = "StmtFor" -> {"init", "test", "update", "body"}
      [] kind \in {"StmtForIn", "StmtForOf"} -> {"left", "right", "body"}
      [] OTHER -> {"test", "body"}

Contained(inner, outer) ==
    /\ outer.start <= inner.start
    /\ inner.start <= inner.end
    /\ inner.end <= outer.end

\* C28: the span of every do-while, while, for, for-in and for-of node starts
\* at the start of the statement's first token and ends at the end of the
\* token consumed last, and contains the span of every child, also after the
\* head was parsed speculatively and the reader rewound.
C28_IterationSpans ==
    (ForDone /\ for_result.status = "Ok") =>
        /\ for_span = Span(for_tokens[1].span.start,
                           for_tokens[Len(for_tokens) - 1].span.end)
        /\ for_reader = Len(for_tokens)
        /\ \A k \in 1..Len(for_parsed) :
              for_parsed[k].part \in ForNodeParts(for_result.kind) =>
                  Contained(for_spans[k], for_span)

\* A for-in built after the speculative parse read the whole left-hand side
\* and the reader was rewound, and a do-while that ends with `;`.
C28_Witness ==
    /\ ForDone
    /\ for_result.status = "Ok"
    /\ \/ /\ for_result.kind = "StmtForIn"
          /\ rewinds = 1
          /\ for_head.init_ok
          /\ for_head.init = "declaration"
       \/ /\ for_result.kind = "StmtDoWhile"
          /\ for_head.semicolon

\* ------------------------------------------------------------ character reader: claims

\* C22: constructing a Reader always succeeds: on a non-empty input it is on
\* the first scalar with eof = false and position 0, on the empty input it is
\* constructed with eof = true.
C22_ReaderNewSucceeds ==
    reader_returned.name = "new" =>
        /\ reader_returned.status = "Ok"
        /\ input # <<>> =>
              /\ reader.current[2] = input[1]
              /\ ~reader.end_of_file
              /\ reader.position = 0
        /\ input = <<>> => reader.end_of_file

\* C23: while eof is false, position() is the byte offset in the input of the
\* scalar current() returns, also for inputs with scalars of more than one byte.
C23_PositionIsByteOffset ==
    (reader # NoReader /\ ~reader.end_of_file) =>
        reader.position = reader.current[1]

\* C24: next with no scalar after the current one sets eof and fails with
\* EndOfFile and leaves current as it is; eof never goes back to false; a next
\* or consume while eof is true fails with EndOfFile and changes nothing; the
\* position never exceeds the number of scalars of the input.
C24_ReaderAtEnd ==
    [][/\ (reader # NoReader /\ reader.next = NoChar /\ reader_returned'.name = "next") =>
             /\ reader'.end_of_file
             /\ reader_returned' = ReaderErr("next")
             /\ reader'.current = reader.current
       /\ reader.end_of_file => reader'.end_of_file
       /\ (reader.end_of_file /\ reader_returned'.name \in {"next", "consume"}) =>
             /\ reader_returned'.status = "Err"
             /\ reader_returned'.value = <<"EndOfFile">>
             /\ reader' = reader
       /\ reader'.position <= Len(input)
      ]_vars

\* The reader met the end of a three-scalar input by read_until and a next was
\* then issued: it failed, and the position is the number of scalars.
C24_Witness ==
    /\ Len(input) = 3
    /\ reader.end_of_file
    /\ reader.position = 3
    /\ reader_returned = ReaderErr("next")

\* ------------------------------------------------------------ lexer: claims

\* The character of the text at column c (columns count from 0).
CharAt(c) == data[c + 1]

Skipped(c) == CharAt(c) = " " \/ CharAt(c) = ";"

\* The columns a..b-1 hold exactly the characters of one token of this value,
\* and the token does not go on at column b.
IsTokenAt(value, a, b) ==
    CASE value = "Assign(None)" -> b = a + 1 /\ CharAt(a) = "="
      [] value = "Assign(Add)" -> b = a + 2 /\ CharAt(a) = "+" /\ CharAt(a + 1) = "="
      [] value = "Number" ->
            /\ a < b
            /\ \A c \in a..(b - 1) : CharAt(c) = "1"
            /\ b < Len(data) /\ CharAt(b) \notin {"a", "1"}
      [] value = "Identifier" ->
            /\ a < b
            /\ CharAt(a) = "a"
            /\ \A c \in a..(b - 1) : CharAt(c) \in {"a", "1"}
            /\ b < Len(data) /\ CharAt(b) \notin {"a", "1"}
      [] OTHER -> FALSE

\* C25: the span of every emitted token starts at the position of the token's
\* first character and ends one past its last; the skipped whitespace and `;`
\* lie in no span; the spans of successive tokens do not overlap and strictly
\* increase.
C25_TokenSpans ==
    /\ \A i \in 1..Len(lexed) :
          /\ IsTokenAt(lexed[i].value, lexed[i].span.start, lexed[i].span.end)
          /\ \A c \in lexed[i].span.start..(lexed[i].span.end - 1) : ~Skipped(c)
          /\ \A c \in (IF i = 1 THEN 0 ELSE lexed[i - 1].span.end)
                          ..(lexed[i].span.start - 1) : Skipped(c)
    /\ \A i \in 1..(Len(lexed) - 1) :
          /\ lexed[i].span.end <= lexed[i + 1].span.start
          /\ lexed[i].span.start < lexed[i + 1].span.start

\* `a+=1;` and ` a =1`: three tokens next to each other, and a token after
\* skipped whitespace.
C25_Witness ==
    \/ /\ data = <<"a", "+", "=", "1", ";">>
       /\ Len(lexed) = 3
       /\ lexed[2] = [value |-> "Assign(Add)", span |-> Span(1, 3)]
       /\ lexed[3] = [value |-> "Number", span |-> Span(3, 4)]
    \/ /\ data = <<" ", "a", " ", "=", "1">>
       /\ Len(lexed) = 2
       /\ lexed[1] = [value |-> "Identifier", span |-> Span(1, 2)]
       /\ lexed[2] = [value |-> "Assign(None)", span |-> Span(3, 4)]

\* ------------------------------------------------------------ import declarations: claims

ImportParsed == import_pc = "done" /\ import_result = ImportOk

\* The tokens of the declaration without the `;` that ends it.
ImportTokens ==
    IF import_consumed[Len(import_consumed)] = ";"
    THEN SubSeq(import_consumed, 1, Len(import_consumed) - 1)
    ELSE import_consumed

\* C26: a parsed import declaration is side-effect-only (no binding at all),
\* or has at least one binding followed by `from` and a module specifier; the
\* namespace binding and the named imports are never both present; after a
\* default binding they need a `,`; without a default binding exactly one of
\* them is present.
C26_ImportShapes ==
    ImportParsed =>
        LET d == import_decl
            bindings == d.default_binding \/ d.namespace_binding \/ d.named_imports.some
            n == Len(ImportTokens)
        IN /\ d.from
           /\ IF bindings
              THEN ImportTokens[n - 1] = "from" /\ ImportTokens[n] = "string" /\ n >= 4
              ELSE ImportTokens = <<"import", "string">>
           /\ ~(d.namespace_binding /\ d.named_imports.some)
           /\ (d.default_binding /\ (d.namespace_binding \/ d.named_imports.some)) =>
                 ImportTokens[3] = ","
           /\ ~d.default_binding /\ bindings =>
                 (d.namespace_binding # d.named_imports.some)

\* `import a, {b as c} from "m";` and `import * as from from "m"` are parsed.
C26_Witness ==
    /\ ImportParsed
    /\ \/ import_consumed =
             <<"import", "ident", ",", "{", "ident", "as", "ident", "}", "from", "string", ";">>
       \/ import_consumed = <<"import", "*", "as", "from", "from", "string">>

\* ------------------------------------------------------------ binding patterns and formal parameters: claims

ListDone == list_pc = "done"

\* The indices of the consumed `,` tokens that stand where an element could
\* start: right after the opening token or after another `,`.
ElisionCommas ==
    {k \in 2..(list_pos - 1) :
        list_tokens[k] = "," /\ list_tokens[k - 1] \in {list_open(list_kind), ","}}

EntriesOf(what) == {k \in 1..Len(list_entries) : list_entries[k].what = what}

C30_RestParameterIsLast ==
    (ListDone /\ list_kind = "parameters" /\ list_result = ListOk) =>
        /\ Cardinality(EntriesOf("rest")) <= 1
        /\ \A k \in EntriesOf("rest") : k = Len(list_entries)
        /\ list_rest.some =>
              LET p == list_rest.at
              IN \/ list_tokens[p + 2] = ")" /\ list_pos = p + 3
                 \/ /\ list_tokens[p + 2] = ","
                    /\ list_current(list_tokens, p + 3) = ")"
                    /\ list_pos = p + 4

====
